---- MODULE Spec2Model ----
(***************************************************************************)
(* Price cache, fetch orchestrator and alert evaluator of                  *)
(* gold_price_tracker/bot.py.                                              *)
(*                                                                         *)
(* Conventions of the model                                                *)
(*   - a Python str is a sequence of characters; an ASCII character is the *)
(*     one-character string itself, a non-ASCII character is a token       *)
(*     ("RUPEE", "MINUS", "RED", "GREEN", "MEDAL1", "MEDAL2", "KIN"), and  *)
(*     "NL" is the newline;                                                *)
(*   - an Optional value is a sequence of length 0 (None) or 1;            *)
(*   - a float is the integer number of hundredths it denotes;             *)
(*   - the clock counts quarters of an hour, so CACHE_TTL (30 minutes) is  *)
(*     2 and the 15 second network timeout is below the clock's            *)
(*     resolution: a call to get_metal_prices reads one clock value;       *)
(*   - last records the latest operation of the specification at hand: a   *)
(*     call of get_metal_prices ("get"), a call of _set_cache ("set"), a   *)
(*     page and its extraction ("page", "extracted"), a table and its      *)
(*     rendering ("table", "rendered").                                    *)
(***************************************************************************)
EXTENDS Integers, Sequences, FiniteSets, TLC

VARIABLES now, cache, last, alerts, job, subs, daily, ret

vars == <<now, cache, last, alerts, job, subs, daily, ret>>

None == <<>>
Some(x) == <<x>>

(***************************************************************************)
(* Characters and the str methods the program uses                         *)
(***************************************************************************)
AsciiChars ==
    << " ", "!", "DQ", "#", "$", "%", "&", "'", "(", ")", "*", "+", ",", "-", ".", "/",
       "0", "1", "2", "3", "4", "5", "6", "7", "8", "9", ":", ";", "<", "=", ">", "?",
       "@", "A", "B", "C", "D", "E", "F", "G", "H", "I", "J", "K", "L", "M", "N", "O",
       "P", "Q", "R", "S", "T", "U", "V", "W", "X", "Y", "Z", "[", "BS", "]", "^", "_",
       "BT", "a", "b", "c", "d", "e", "f", "g", "h", "i", "j", "k", "l", "m", "n", "o",
       "p", "q", "r", "s", "t", "u", "v", "w", "x", "y", "z", "{", "|", "}", "~" >>

WideChars == {"RUPEE", "MINUS", "RED", "GREEN", "MEDAL1", "MEDAL2", "KIN", "NL"}

Chars == {AsciiChars[i] : i \in 1..Len(AsciiChars)} \cup WideChars

\* ord(ch)
CodePoint ==
    [ch \in Chars |->
        CASE ch = "RUPEE"  -> 8377       \* U+20B9
          [] ch = "MINUS"  -> 8722       \* U+2212
          [] ch = "RED"    -> 128308     \* U+1F534
          [] ch = "GREEN"  -> 128994     \* U+1F7E2
          [] ch = "MEDAL1" -> 129351     \* U+1F947
          [] ch = "MEDAL2" -> 129352     \* U+1F948
          [] ch = "KIN"    -> 37329      \* U+91D1
          [] ch = "NL"     -> 10
          [] OTHER -> 31 + (CHOOSE i \in 1..Len(AsciiChars) : AsciiChars[i] = ch)]

\* str.lower() on one character: A-Z map to a-z, everything else the model
\* uses has no lower-case form
LowerChar ==
    [ch \in Chars |->
        LET lower(cp) == IF cp >= 65 /\ cp <= 90 THEN AsciiChars[cp + 32 - 31] ELSE ch
        IN  lower(CodePoint[ch])]

Lower(s) == [i \in 1..Len(s) |-> LowerChar[s[i]]]

IsSpace(ch) == ch \in {" ", "NL"}

\* s.replace(ch, "")
RECURSIVE Remove(_, _)
Remove(s, ch) ==
    IF s = <<>> THEN <<>>
    ELSE IF Head(s) = ch THEN Remove(Tail(s), ch)
    ELSE <<Head(s)>> \o Remove(Tail(s), ch)

RECURSIVE LStrip(_)
LStrip(s) == IF s # <<>> /\ IsSpace(Head(s)) THEN LStrip(Tail(s)) ELSE s

RECURSIVE RStrip(_)
RStrip(s) ==
    IF s # <<>> /\ IsSpace(s[Len(s)]) THEN RStrip(SubSeq(s, 1, Len(s) - 1)) ELSE s

\* s.strip()
Strip(s) == RStrip(LStrip(s))

\* the first element of s.split(), "" when s.split() is empty
RECURSIVE TakeToken(_)
TakeToken(s) ==
    IF s = <<>> \/ IsSpace(Head(s)) THEN <<>>
    ELSE <<Head(s)>> \o TakeToken(Tail(s))

FirstToken(s) == TakeToken(LStrip(s))

\* s.startswith(p)
StartsWith(s, p) == Len(s) >= Len(p) /\ SubSeq(s, 1, Len(p)) = p

\* p in s
Contains(s, p) ==
    \E i \in 0..(Len(s) - Len(p)) : SubSeq(s, i + 1, i + Len(p)) = p

(***************************************************************************)
(* Config & constants                                                      *)
(***************************************************************************)
CACHE_TTL == 2

gold      == <<"g", "o", "l", "d">>
silver    == <<"s", "i", "l", "v", "e", "r">>
bangalore == <<"b", "a", "n", "g", "a", "l", "o", "r", "e">>
mumbai    == <<"m", "u", "m", "b", "a", "i">>
delhi     == <<"d", "e", "l", "h", "i">>
chennai   == <<"c", "h", "e", "n", "n", "a", "i">>
hyderabad == <<"h", "y", "d", "e", "r", "a", "b", "a", "d">>
kolkata   == <<"k", "o", "l", "k", "a", "t", "a">>
pune      == <<"p", "u", "n", "e">>
ahmedabad == <<"a", "h", "m", "e", "d", "a", "b", "a", "d">>
jaipur    == <<"j", "a", "i", "p", "u", "r">>
surat     == <<"s", "u", "r", "a", "t">>

\* str.title() of a lower-case word: the display names of METALS and CITIES
Capitalized(s) ==
    [i \in 1..Len(s) |-> IF i = 1 THEN AsciiChars[CodePoint[s[1]] - 32 - 31] ELSE s[i]]

METALS ==
    [m \in {gold, silver} |->
        IF m = gold
        THEN [url_slug |-> "gold-rates", label |-> Capitalized(gold), emoji |-> "MEDAL1",
              section_keyword |-> Capitalized(gold) \o <<" ", "P", "r", "i", "c", "e">>]
        ELSE [url_slug |-> "silver-rates", label |-> Capitalized(silver), emoji |-> "MEDAL2",
              section_keyword |-> Capitalized(silver) \o <<" ", "P", "r", "i", "c", "e">>]]

CITIES ==
    [c \in {bangalore, mumbai, delhi, chennai, hyderabad, kolkata, pune, ahmedabad,
            jaipur, surat} |-> Capitalized(c)]

DEFAULT_CITY == bangalore
DEFAULT_METAL == gold

(***************************************************************************)
(* Price cache: (metal, city) -> [data, timestamp, price]                  *)
(***************************************************************************)

\* mutant: the key is the pair of identifiers as given
_cache_key_as_given(metal, city) == <<metal, city>>

_cache_key(metal, city) == <<Lower(metal), Lower(city)>>

\* mutant: an entry is still served at the age CACHE_TTL
_get_cached_inclusive(c, t, metal, city) ==
    LET entry(key) ==
            IF key \in DOMAIN c /\ (t - c[key].timestamp) <= CACHE_TTL
            THEN Some(c[key])
            ELSE None
    IN  entry(<<Lower(metal), Lower(city)>>)

\* the dict lookup and the freshness test; None when missing or expired
_get_cached(c, t, metal, city) ==
    LET entry(key) ==
            IF key \in DOMAIN c /\ (t - c[key].timestamp) < CACHE_TTL
            THEN Some(c[key])
            ELSE None
    IN  entry(_cache_key(metal, city))

\* mutant: an existing entry is kept (setdefault instead of assignment)
_set_cache_if_absent(c, t, metal, city, message, price) ==
    LET stored(key) ==
            [k \in DOMAIN c \cup {key} |->
                IF k \in DOMAIN c THEN c[k]
                ELSE [data |-> message, timestamp |-> t, price |-> price]]
    IN  stored(<<Lower(metal), Lower(city)>>)

\* mutant: an existing entry gets the new message and time in place and
\* keeps its price
_set_cache_keeps_price(c, t, metal, city, message, price) ==
    LET stored(key) ==
            [k \in DOMAIN c \cup {key} |->
                IF k # key THEN c[k]
                ELSE [data |-> message, timestamp |-> t,
                      price |-> IF key \in DOMAIN c THEN c[key].price ELSE price]]
    IN  stored(_cache_key(metal, city))

\* the cache after _price_cache[key] = {...}
_set_cache(c, t, metal, city, message, price) ==
    LET stored(key) ==
            [k \in DOMAIN c \cup {key} |->
                IF k = key
                THEN [data |-> message, timestamp |-> t, price |-> price]
                ELSE c[k]]
    IN  stored(_cache_key(metal, city))

(***************************************************************************)
(* Scraper helpers                                                         *)
(***************************************************************************)
IsDigit(ch) ==
    LET digit(cp) == cp >= 48 /\ cp <= 57 IN digit(CodePoint[ch])

RECURSIVE DigitsValue(_)
DigitsValue(s) ==
    IF s = <<>> THEN 0
    ELSE DigitsValue(SubSeq(s, 1, Len(s) - 1)) * 10 + (CodePoint[s[Len(s)]] - 48)

\* float(token) for the decimal literals: an optional sign, digits, an optional
\* point and digits, at least one digit in all. The value is in hundredths, so
\* a literal carries at most two fraction digits. None stands for ValueError.
ParseFloat(token) ==
    LET signed == token # <<>> /\ Head(token) \in {"-", "+"}
        \* ip, fp: the digits before and after the point
        number(points, ip, fp) ==
            LET wellFormed ==
                    /\ points <= 1
                    /\ Len(ip) + Len(fp) >= 1
                    /\ Len(fp) <= 2
                    /\ \A i \in 1..Len(ip) : IsDigit(ip[i])
                    /\ \A i \in 1..Len(fp) : IsDigit(fp[i])
                magnitude ==
                    DigitsValue(ip) * 100 + DigitsValue(SubSeq(fp \o <<"0", "0">>, 1, 2))
            IN  IF wellFormed
                THEN Some(IF signed /\ Head(token) = "-" THEN 0 - magnitude ELSE magnitude)
                ELSE None
        split(body, dots, dot) ==
            number(Cardinality(dots), SubSeq(body, 1, dot - 1),
                   SubSeq(body, dot + 1, Len(body)))
        pointed(body, dots) ==
            split(body, dots,
                  IF dots = {} THEN Len(body) + 1 ELSE CHOOSE i \in dots : TRUE)
        unsigned(body) == pointed(body, {i \in 1..Len(body) : body[i] = "."})
    IN  unsigned(IF signed THEN Tail(token) ELSE token)

\* mutant: the whole cleaned text is parsed, not its first token
_parse_price_from_cell_whole(text) ==
    LET cleaned == Strip(Remove(Remove(text, "RUPEE"), ","))
    IN  ParseFloat(cleaned)

_parse_price_from_cell(text) ==
    LET cleaned == Strip(Remove(Remove(text, "RUPEE"), ","))
    IN  ParseFloat(FirstToken(cleaned))

\* the code-point ranges _display_len counts as two columns
IsWide(cp) ==
    \/ (4352 <= cp /\ cp <= 4447)          \* 0x1100 - 0x115F
    \/ (11904 <= cp /\ cp <= 12350)        \* 0x2E80 - 0x303E
    \/ (12352 <= cp /\ cp <= 13311)        \* 0x3040 - 0x33FF
    \/ (13312 <= cp /\ cp <= 19903)        \* 0x3400 - 0x4DBF
    \/ (19968 <= cp /\ cp <= 42191)        \* 0x4E00 - 0xA4CF
    \/ (44032 <= cp /\ cp <= 55215)        \* 0xAC00 - 0xD7AF
    \/ (63744 <= cp /\ cp <= 64255)        \* 0xF900 - 0xFAFF
    \/ (65040 <= cp /\ cp <= 65055)        \* 0xFE10 - 0xFE1F
    \/ (65072 <= cp /\ cp <= 65103)        \* 0xFE30 - 0xFE4F
    \/ (65280 <= cp /\ cp <= 65376)        \* 0xFF00 - 0xFF60
    \/ (65504 <= cp /\ cp <= 65510)        \* 0xFFE0 - 0xFFE6
    \/ (127744 <= cp /\ cp <= 129791)      \* 0x1F300 - 0x1FAFF
    \/ (131072 <= cp /\ cp <= 173791)      \* 0x20000 - 0x2A6DF

RECURSIVE _display_len(_)
_display_len(s) ==
    IF s = <<>> THEN 0
    ELSE (IF IsWide(CodePoint[Head(s)]) THEN 2 ELSE 1) + _display_len(Tail(s))

Max(a, b) == IF a >= b THEN a ELSE b

Repeat(ch, n) == [i \in 1..n |-> ch]

_pad_right(s, width) == s \o Repeat(" ", Max(0, width - _display_len(s)))

_pad_center(s, width) ==
    LET padded(padding, left) == Repeat(" ", left) \o s \o Repeat(" ", padding - left)
        centred(padding) == padded(padding, padding \div 2)
    IN  centred(Max(0, width - _display_len(s)))

\* sep.join(parts)
RECURSIVE Join(_, _)
Join(parts, sep) ==
    IF parts = <<>> THEN <<>>
    ELSE IF Len(parts) = 1 THEN parts[1]
    ELSE parts[1] \o sep \o Join(Tail(parts), sep)

COL_CHANGE == 3

\* mutant: a hyphen anywhere in the text counts as a fall
InjectGlyph_any_hyphen(row) ==
    IF Len(row) > COL_CHANGE
    THEN LET is_negative(change) ==
                 Contains(change, <<"MINUS">>) \/ Contains(change, <<"-">>)
         IN  [row EXCEPT ![COL_CHANGE + 1] =
                  <<IF is_negative(@) THEN "RED" ELSE "GREEN", " ">> \o @]
    ELSE row

\* the first loop of _build_table_str on one row
InjectGlyph(row) ==
    IF Len(row) > COL_CHANGE
    THEN LET is_negative(change) ==
                 StartsWith(change, <<"MINUS">>) \/ StartsWith(change, <<"-">>)
         IN  [row EXCEPT ![COL_CHANGE + 1] =
                  <<IF is_negative(@) THEN "RED" ELSE "GREEN", " ">> \o @]
    ELSE row

InjectGlyphs(rows) == [r \in 1..Len(rows) |-> InjectGlyph(rows[r])]

\* max(_display_len(row[i]) for row in rows), rows not empty
RECURSIVE MaxCellWidth(_, _)
MaxCellWidth(rows, i) ==
    IF Len(rows) = 1 THEN _display_len(rows[1][i])
    ELSE Max(_display_len(rows[1][i]), MaxCellWidth(Tail(rows), i))

\* column_widths, computed on the rows after the glyphs went in
ColumnWidths(headers, rows) ==
    [i \in 1..Len(headers) |-> Max(_display_len(headers[i]), MaxCellWidth(rows, i))]

\* _build_table_str raises when a column exists and there is no row to take
\* the maximum over (ValueError) or a row is shorter than the headers
\* (IndexError)
BuildTableRaises(headers, rows) ==
    /\ Len(headers) > 0
    /\ \/ rows = <<>>
       \/ \E r \in 1..Len(rows) : Len(rows[r]) < Len(headers)

\* mutant: the columns are measured before the glyphs go in
TableLines_measures_first(headers, rows) ==
    LET lines(shown, widths) ==
            LET separator  == Join([i \in 1..Len(headers) |-> Repeat("-", widths[i])],
                                   <<"-", "+", "-">>)
                header_row == Join([i \in 1..Len(headers) |->
                                        _pad_center(headers[i], widths[i])],
                                   <<" ", "|", " ">>)
                line(row)  == Join([i \in 1..Len(headers) |->
                                        _pad_right(row[i], widths[i])],
                                   <<" ", "|", " ">>)
            IN  <<header_row, separator>> \o [r \in 1..Len(shown) |-> line(shown[r])]
    IN  lines(InjectGlyphs(rows), ColumnWidths(headers, rows))

\* lines of the table: header, separator, one line per row
TableLines(headers, rows) ==
    LET lines(shown, widths) ==
            LET separator  == Join([i \in 1..Len(headers) |-> Repeat("-", widths[i])],
                                   <<"-", "+", "-">>)
                header_row == Join([i \in 1..Len(headers) |->
                                        _pad_center(headers[i], widths[i])],
                                   <<" ", "|", " ">>)
                line(row)  == Join([i \in 1..Len(headers) |->
                                        _pad_right(row[i], widths[i])],
                                   <<" ", "|", " ">>)
            IN  <<header_row, separator>> \o [r \in 1..Len(shown) |-> line(shown[r])]
        measured(shown) == lines(shown, ColumnWidths(headers, shown))
    IN  measured(InjectGlyphs(rows))

_build_table_str(headers, rows) == Join(TableLines(headers, rows), <<"NL">>)

(***************************************************************************)
(* The source page.  A fetched document is what BeautifulSoup makes of it: *)
(* the section elements in document order, each with its data-gr-title     *)
(* attribute (None when it has none) and its tables; a table has its class *)
(* names, the th texts of its thead (None: no thead) and the td texts of   *)
(* each tr of its tbody (None: no tbody).  rejected marks markup on which  *)
(* the parser itself raises (an exception that is no RuntimeError).        *)
(***************************************************************************)
MARKER_CLASS == "table-conatiner"

\* tag.get_text(strip=True) of a cell holding one text node
get_text(raw) == Strip(raw)

\* the first section whose data-gr-title contains the keyword, ignoring case
FindSection(doc, keyword) ==
    LET first(hits) ==
            IF hits = {} THEN None
            ELSE Some(doc.sections[CHOOSE i \in hits : \A j \in hits : i <= j])
    IN  first({i \in 1..Len(doc.sections) :
                  /\ doc.sections[i].title # None
                  /\ Contains(Lower(doc.sections[i].title[1]), Lower(keyword))})

\* section.find("table", {"class": "table-conatiner"})
FindTable(section) ==
    LET first(hits) ==
            IF hits = {} THEN None
            ELSE Some(section.tables[CHOOSE i \in hits : \A j \in hits : i <= j])
    IN  first({i \in 1..Len(section.tables) : MARKER_CLASS \in section.tables[i].class})

\* mutant: longer rows are kept too
RECURSIVE FilterRows_keeps_longer(_, _)
FilterRows_keeps_longer(trs, n) ==
    IF trs = <<>> THEN <<>>
    ELSE LET kept(cells) == IF Len(cells) >= n THEN <<cells>> ELSE <<>>
         IN  kept([i \in 1..Len(Head(trs)) |-> get_text(Head(trs)[i])])
                 \o FilterRows_keeps_longer(Tail(trs), n)

\* the rows of tbody whose cell count equals the header count, in order
RECURSIVE FilterRows(_, _)
FilterRows(trs, n) ==
    IF trs = <<>> THEN <<>>
    ELSE LET kept(cells) == IF Len(cells) = n THEN <<cells>> ELSE <<>>
         IN  kept([i \in 1..Len(Head(trs)) |-> get_text(Head(trs)[i])])
                 \o FilterRows(Tail(trs), n)

StructureError(what, label) == [error |-> Some([what |-> what, label |-> label]),
                                headers |-> <<>>, rows |-> <<>>]

\* mutant: the rows are looked at before the headers
ExtractTable_rows_first(doc, metal_info) ==
    LET in_headers(table, headers) ==
            IF FilterRows(table.tbody[1], Len(headers)) = <<>>
            THEN StructureError("no_data_rows", <<>>)
            ELSE IF headers = <<>> THEN StructureError("no_headers", <<>>)
            ELSE [error |-> None, headers |-> headers,
                  rows |-> FilterRows(table.tbody[1], Len(headers))]
        in_thead(table, ths) ==
            in_headers(table, [i \in 1..Len(ths) |-> get_text(ths[i])])
        in_table(table) ==
            IF table = None THEN StructureError("no_table", metal_info.label)
            ELSE IF table[1].thead = None \/ table[1].tbody = None
            THEN StructureError("malformed_table", <<>>)
            ELSE in_thead(table[1], table[1].thead[1])
        in_section(section) ==
            IF section = None THEN StructureError("no_section", metal_info.label)
            ELSE in_table(FindTable(section[1]))
    IN  in_section(FindSection(doc, metal_info.section_keyword))

\* lines 377-416 of get_metal_prices: the RuntimeError raised, or headers and rows
ExtractTable(doc, metal_info) ==
    LET in_rows(headers, raw_rows) ==
            IF raw_rows = <<>> THEN StructureError("no_data_rows", <<>>)
            ELSE [error |-> None, headers |-> headers, rows |-> raw_rows]
        in_headers(table, headers) ==
            IF headers = <<>> THEN StructureError("no_headers", <<>>)
            ELSE in_rows(headers, FilterRows(table.tbody[1], Len(headers)))
        in_thead(table, ths) ==
            in_headers(table, [i \in 1..Len(ths) |-> get_text(ths[i])])
        in_table(table) ==
            IF table = None THEN StructureError("no_table", metal_info.label)
            ELSE IF table[1].thead = None \/ table[1].tbody = None
            THEN StructureError("malformed_table", <<>>)
            ELSE in_thead(table[1], table[1].thead[1])
        in_section(section) ==
            IF section = None THEN StructureError("no_section", metal_info.label)
            ELSE in_table(FindTable(section[1]))
    IN  in_section(FindSection(doc, metal_info.section_keyword))

(***************************************************************************)
(* The pages the source site answers with in the model                     *)
(***************************************************************************)
hGram   == <<"G", "r", "a", "m">>
hToday  == <<"T", "o", "d", "a", "y">>
hYday   == <<"Y", "d", "a", "y">>
hChange == <<"C", "h", "g">>
g1      == <<"1">>
g8      == <<"8">>
p6000   == <<"RUPEE", "6", ",", "0", "0", "0">>
p6010   == <<" ", "RUPEE", "6", ",", "0", "1", "0", " ">>
p7000   == <<"7", "0", "0", "0", ".", "5", "0", " ", "I", "N", "R">>
pNA     == <<"N", "/", "A">>
pNeg    == <<"-", "5">>
chDown  == <<"-", "1", "0">>
chDownU == <<"MINUS", "1", "0">>
chUp    == <<"+", "5">>
adCell  == <<"K", "I", "N", " ", "KIN">>
tGold   == <<"T", "o", "d", "a", "y", " ", "G", "O", "L", "D", " ", "p", "r", "i", "c", "e">>
tSilver == <<"S", "i", "l", "v", "e", "r", " ", "P", "r", "i", "c", "e", "s">>
tOther  == <<"G", "o", "l", "d", " ", "N", "e", "w", "s">>

Headers4 == <<hGram, hToday, hYday, hChange>>

Table(class, thead, tbody) == [class |-> class, thead |-> thead, tbody |-> tbody]

Section(title, tables) == [title |-> title, tables |-> tables]

Page(sections) == [rejected |-> FALSE, sections |-> sections]

GoldTable(price) ==
    Table({"table", MARKER_CLASS}, Some(Headers4),
          Some(<< <<g1, price, p6010, chDown>>,
                  <<adCell>>,
                  <<g8, p7000, p6000, chDownU>> >>))

SilverTable(price) ==
    Table({MARKER_CLASS}, Some(<<hGram, hToday>>), Some(<< <<g1, price>> >>))

Docs ==
    << \* 1: both metals, gold 6000, silver 7000.50
       Page(<< Section(None, <<>>),
               Section(Some(tOther), <<>>),
               Section(Some(tSilver), <<SilverTable(p7000)>>),
               Section(Some(tGold), <<Table({"table"}, None, None), GoldTable(p6000)>>) >>),
       \* 2: gold without a readable price, silver with a negative one
       Page(<< Section(Some(tGold), <<GoldTable(pNA)>>),
               Section(Some(tSilver), <<SilverTable(pNeg)>>) >>),
       \* 3: no section of either metal
       Page(<< Section(None, <<GoldTable(p6000)>>), Section(Some(tOther), <<>>) >>),
       \* 4: the sections hold no table of the marker class
       Page(<< Section(Some(tGold), <<Table({"table"}, Some(Headers4), Some(<<>>))>>),
               Section(Some(tSilver), <<>>) >>),
       \* 5: a table without tbody (gold), without thead (silver)
       Page(<< Section(Some(tGold), <<Table({MARKER_CLASS}, Some(Headers4), None)>>),
               Section(Some(tSilver), <<Table({MARKER_CLASS}, None, Some(<<>>))>>) >>),
       \* 6: a thead without th
       Page(<< Section(Some(tGold), <<Table({MARKER_CLASS}, Some(<<>>), Some(<< <<g1>> >>))>>),
               Section(Some(tSilver), <<Table({MARKER_CLASS}, Some(<<>>), Some(<<>>))>>) >>),
       \* 7: no row with as many cells as headers
       Page(<< Section(Some(tGold),
                       <<Table({MARKER_CLASS}, Some(Headers4),
                               Some(<< <<adCell>>, <<g1, p6000, p6010>> >>))>>),
               Section(Some(tSilver),
                       <<Table({MARKER_CLASS}, Some(<<hGram, hToday>>), Some(<<>>))>>) >>),
       \* 8: markup the parser rejects
       [rejected |-> TRUE, sections |-> <<>>],
       \* 9: gold in a single column, after a row of two cells; silver as in 1
       Page(<< Section(Some(tGold),
                       <<Table({MARKER_CLASS}, Some(<<hGram>>),
                               Some(<< <<g1, p6000>>, <<g8>>, <<g1>> >>))>>),
               Section(Some(tSilver), <<SilverTable(p7000)>>) >>) >>

\* what scraper.get does: raise, or answer with a status and a page
Response(exc, status_code, doc) == [exc |-> exc, status_code |-> status_code, doc |-> doc]

NoResponse == Response(TRUE, 0, 0)

StatusCodes == {200, 204, 404}

\* an answer with another status than 200 carries page 1 as its body
Responses(docs) ==
    {NoResponse}
        \cup {Response(FALSE, st, 1) : st \in StatusCodes \ {200}}
        \cup {Response(FALSE, 200, d) : d \in docs}

(***************************************************************************)
(* get_metal_prices                                                        *)
(***************************************************************************)
Url(metal, city) == [slug |-> METALS[metal].url_slug, city |-> city]

\* the strings get_metal_prices returns, by template
Message(kind, metal, city, status, reason, table, at) ==
    [kind      |-> kind,
     label     |-> METALS[metal].label,
     emoji     |-> METALS[metal].emoji,
     city_name |-> CITIES[city],
     url       |-> Url(metal, city),
     status    |-> status,
     reason    |-> reason,
     table     |-> table,
     fetched_at |-> at]

\* current_price or 0.0
OrZero(price) == IF price = None \/ price[1] = 0 THEN 0 ELSE price[1]

Raise(c, what, ident) ==
    [raised |-> TRUE, error |-> Some([what |-> what, ident |-> ident]), value |-> None,
     cache |-> c, cached |-> None, reads |-> 0, fetches |-> 0, writes |-> 0]

\* reads, fetches, writes: the calls of _get_cached, scraper.get and _set_cache made
Return(c, message, reads, fetches, writes) ==
    [raised |-> FALSE, error |-> None, value |-> Some(message),
     cache |-> c, cached |-> None, reads |-> reads, fetches |-> fetches, writes |-> writes]

\* mutant: a first row without a readable price is a parse failure
ParsePage_needs_price(metal, doc) ==
    LET failed(kind, reason) == [kind |-> kind, reason |-> reason, table |-> <<>>,
                                 price |-> None]
        priced(ex, price) ==
            IF price = None THEN failed("unexpected_error", None)
            ELSE [kind |-> "prices", reason |-> None,
                  table |-> _build_table_str(ex.headers, ex.rows), price |-> price]
        render(ex) ==
            IF ex.error # None THEN failed("parse_error", ex.error)
            ELSE IF BuildTableRaises(ex.headers, ex.rows) THEN failed("unexpected_error", None)
            ELSE priced(ex, IF Len(ex.rows[1]) > 1
                            THEN _parse_price_from_cell(ex.rows[1][2]) ELSE None)
    IN  IF doc.rejected THEN failed("unexpected_error", None)
        ELSE render(ExtractTable(doc, METALS[metal]))

\* lines 374-423: what parsing and rendering one page for one metal ends in:
\* "prices" with the rendered table and current_price, "parse_error" with the
\* RuntimeError raised, or "unexpected_error" for any other exception
ParsePage(metal, doc) ==
    LET failed(kind, reason) == [kind |-> kind, reason |-> reason, table |-> <<>>,
                                 price |-> None]
        render(ex) ==
            IF ex.error # None THEN failed("parse_error", ex.error)
            ELSE IF BuildTableRaises(ex.headers, ex.rows) THEN failed("unexpected_error", None)
            ELSE [kind |-> "prices", reason |-> None,
                  table |-> _build_table_str(ex.headers, ex.rows),
                  \* current_price, of the second cell of the first row
                  price |-> IF Len(ex.rows[1]) > 1
                            THEN _parse_price_from_cell(ex.rows[1][2]) ELSE None]
    IN  IF doc.rejected THEN failed("unexpected_error", None)
        ELSE render(ExtractTable(doc, METALS[metal]))

\* ParsePage on the pages of Docs, computed once
Parsed == [metal \in DOMAIN METALS, d \in 1..Len(Docs) |-> ParsePage(metal, Docs[d])]

\* mutant: a parse failure is raised to the caller instead of being returned
ParseAndCache_raises(c, t, metal, city, reads, d) ==
    LET stored(p, message) ==
            Return(_set_cache(c, t, metal, city, message, OrZero(p.price)),
                   message, reads, 1, 1)
        outcome(p) ==
            IF p.kind # "prices"
            THEN [Raise(c, "runtime", <<>>) EXCEPT !.reads = reads, !.fetches = 1]
            ELSE stored(p, Message("prices", metal, city, 0, None, p.table, t))
    IN  outcome(Parsed[metal, d])

\* lines 373-452: the response is there and its status is 200; d is its page
ParseAndCache(c, t, metal, city, reads, d) ==
    LET stored(p, message) ==
            Return(_set_cache(c, t, metal, city, message, OrZero(p.price)),
                   message, reads, 1, 1)
        outcome(p) ==
            IF p.kind # "prices"
            THEN Return(c, Message(p.kind, metal, city, 0, p.reason, <<>>, 0), reads, 1, 0)
            ELSE stored(p, Message("prices", metal, city, 0, None, p.table, t))
    IN  outcome(Parsed[metal, d])

\* mutant: a bad status is reported with the network-error text
FetchAndParse_wrong_fallback(c, t, metal, city, reads, resp) ==
    IF resp.exc \/ resp.status_code # 200
    THEN Return(c, Message("network_error", metal, city, 0, None, <<>>, 0), reads, 1, 0)
    ELSE ParseAndCache(c, t, metal, city, reads, resp.doc)

\* mutant: a failed fetch is tried a second time
FetchAndParse_retry(c, t, metal, city, reads, resp) ==
    IF resp.exc
    THEN Return(c, Message("network_error", metal, city, 0, None, <<>>, 0), reads, 2, 0)
    ELSE IF resp.status_code # 200
    THEN Return(c, Message("http_error", metal, city, resp.status_code, None, <<>>, 0),
                reads, 2, 0)
    ELSE ParseAndCache(c, t, metal, city, reads, resp.doc)

\* mutant: the fallback for a bad status is stored in the cache
FetchAndParse_caches_fallback(c, t, metal, city, reads, resp) ==
    IF resp.exc
    THEN Return(c, Message("network_error", metal, city, 0, None, <<>>, 0), reads, 1, 0)
    ELSE IF resp.status_code # 200
    THEN LET stored(message) ==
                 Return(_set_cache(c, t, metal, city, message, 0), message, reads, 1, 1)
         IN  stored(Message("http_error", metal, city, resp.status_code, None, <<>>, 0))
    ELSE ParseAndCache(c, t, metal, city, reads, resp.doc)

\* mutant: a fetch that fails forgets the entry of the key
FetchAndParse_evicts(c, t, metal, city, reads, resp) ==
    LET without(key) == [k \in DOMAIN c \ {key} |-> c[k]] IN
    IF resp.exc
    THEN Return(without(_cache_key(metal, city)),
                Message("network_error", metal, city, 0, None, <<>>, 0), reads, 1, 0)
    ELSE IF resp.status_code # 200
    THEN Return(c, Message("http_error", metal, city, resp.status_code, None, <<>>, 0),
                reads, 1, 0)
    ELSE ParseAndCache(c, t, metal, city, reads, resp.doc)

\* mutant: every status from 200 to 299 is parsed
FetchAndParse_accepts_2xx(c, t, metal, city, reads, resp) ==
    IF resp.exc
    THEN Return(c, Message("network_error", metal, city, 0, None, <<>>, 0), reads, 1, 0)
    ELSE IF resp.status_code < 200 \/ resp.status_code > 299
    THEN Return(c, Message("http_error", metal, city, resp.status_code, None, <<>>, 0),
                reads, 1, 0)
    ELSE ParseAndCache(c, t, metal, city, reads, resp.doc)

\* lines 346-371: the network fetch and the status check
FetchAndParse(c, t, metal, city, reads, resp) ==
    IF resp.exc
    THEN Return(c, Message("network_error", metal, city, 0, None, <<>>, 0), reads, 1, 0)
    ELSE IF resp.status_code # 200
    THEN Return(c, Message("http_error", metal, city, resp.status_code, None, <<>>, 0),
                reads, 1, 0)
    ELSE ParseAndCache(c, t, metal, city, reads, resp.doc)

\* mutant: the cache is never consulted
get_metal_prices_no_cache(c, t, metal_arg, city_arg, force_refresh, resp) ==
    LET body(metal, city) ==
            IF metal \notin DOMAIN METALS THEN Raise(c, "metal", metal)
            ELSE IF city \notin DOMAIN CITIES THEN Raise(c, "city", city)
            ELSE FetchAndParse(c, t, metal, city, 0, resp)
    IN  body(Lower(metal_arg), Lower(city_arg))

\* mutant: the cache is read before the identifiers are validated
get_metal_prices_validates_late(c, t, metal_arg, city_arg, force_refresh, resp) ==
    LET reads == IF ~force_refresh THEN 1 ELSE 0
        looked_up(metal, city, cached) ==
            IF metal \notin DOMAIN METALS
            THEN [Raise(c, "metal", metal) EXCEPT !.reads = reads]
            ELSE IF city \notin DOMAIN CITIES
            THEN [Raise(c, "city", city) EXCEPT !.reads = reads]
            ELSE IF cached # None
            THEN [Return(c, cached[1].data, reads, 0, 0) EXCEPT !.cached = cached]
            ELSE FetchAndParse(c, t, metal, city, reads, resp)
        body(metal, city) ==
            looked_up(metal, city,
                      IF ~force_refresh THEN _get_cached(c, t, metal, city) ELSE None)
    IN  body(Lower(metal_arg), Lower(city_arg))

\* mutant: a refused call leaves an entry under the key it was made for
get_metal_prices_caches_refusal(c, t, metal_arg, city_arg, force_refresh, resp) ==
    LET reads == IF ~force_refresh THEN 1 ELSE 0
        refusal == Message("unexpected_error", DEFAULT_METAL, DEFAULT_CITY, 0, None, <<>>, 0)
        looked_up(metal, city, cached) ==
            IF cached # None
            THEN [Return(c, cached[1].data, reads, 0, 0) EXCEPT !.cached = cached]
            ELSE FetchAndParse(c, t, metal, city, reads, resp)
        body(metal, city) ==
            IF metal \notin DOMAIN METALS
            THEN Raise(_set_cache(c, t, metal, city, refusal, 0), "metal", metal)
            ELSE IF city \notin DOMAIN CITIES
            THEN Raise(_set_cache(c, t, metal, city, refusal, 0), "city", city)
            ELSE looked_up(metal, city,
                           IF ~force_refresh THEN _get_cached(c, t, metal, city) ELSE None)
    IN  body(Lower(metal_arg), Lower(city_arg))

\* get_metal_prices(metal, city, force_refresh) called at time t on cache c, when
\* the network answers resp if asked.  The result says whether the call raised,
\* what it raised or returned, the cache it leaves, what its cache read gave
\* (cached) and how many cache reads, network fetches and cache writes it made.
get_metal_prices(c, t, metal_arg, city_arg, force_refresh, resp) ==
    LET reads == IF ~force_refresh THEN 1 ELSE 0
        looked_up(metal, city, cached) ==
            IF cached # None
            THEN [Return(c, cached[1].data, reads, 0, 0) EXCEPT !.cached = cached]
            ELSE FetchAndParse(c, t, metal, city, reads, resp)
        body(metal, city) ==
            IF metal \notin DOMAIN METALS THEN Raise(c, "metal", metal)
            ELSE IF city \notin DOMAIN CITIES THEN Raise(c, "city", city)
            ELSE looked_up(metal, city,
                           IF ~force_refresh THEN _get_cached(c, t, metal, city) ELSE None)
    IN  body(Lower(metal_arg), Lower(city_arg))

(***************************************************************************)
(* State                                                                   *)
(*   now     the clock (time.time(), datetime.now())                       *)
(*   cache   _price_cache                                                  *)
(*   last    the latest call of get_metal_prices by an interactive         *)
(*           request: its arguments, the time, the entry stored under its  *)
(*           key before it, the response of the network if it asked, and   *)
(*           its outcome                                                   *)
(*   alerts  the alerts table, chat_id -> [metal, city, threshold]         *)
(*   job     job_check_alerts: where the running job stands, the alerts it *)
(*           read, its groups, and what it did so far (per group: whether  *)
(*           the entry found was within TTL, whether get_metal_prices was  *)
(*           called, the price resolved; fired: the chats send_message was *)
(*           called for, failed: those for which it raised; prev: the      *)
(*           chats the run before fired for)                               *)
(*   subs    the subscriptions table, chat_id -> [chat_id, city, metal]    *)
(*   daily   job_daily_prices: where the running job stands, the rows it   *)
(*           read, and how the turn of each row gone through ended         *)
(*   ret     the latest operation on a table of the database: the tables   *)
(*           before it and what it returned                                *)
(***************************************************************************)
MaxTime == 3

NoCall ==
    [op |-> "none", metal |-> <<>>, city |-> <<>>, force |-> FALSE, at |-> 0,
     pre |-> None, resp |-> NoResponse, raised |-> FALSE, error |-> None,
     value |-> None, cached |-> None, reads |-> 0, fetches |-> 0, writes |-> 0,
     changed |-> FALSE]

\* the record of one call of get_metal_prices on cache c at time t with result r
CallRecord(c, t, metal, city, force, resp, r) ==
    LET stored(key) == IF key \in DOMAIN c THEN Some(c[key]) ELSE None IN
    [op |-> "get", metal |-> metal, city |-> city, force |-> force, at |-> t,
     pre |-> stored(_cache_key(metal, city)),
     resp |-> IF r.fetches > 0 THEN resp ELSE NoResponse,
     raised |-> r.raised, error |-> r.error, value |-> r.value, cached |-> r.cached,
     reads |-> r.reads, fetches |-> r.fetches, writes |-> r.writes,
     changed |-> (r.cache # c)]

\* prev is no state of the program: the chats the run before this one fired for
JobIdle ==
    [pc |-> "idle", alerts |-> <<>>, groups |-> <<>>, gi |-> 1, ai |-> 1,
     price |-> 0, log |-> <<>>, fired |-> {}, failed |-> {}, prev |-> {}]

DailyIdle == [pc |-> "idle", subs |-> <<>>, i |-> 1, log |-> <<>>]

\* no table was operated on yet
NoOp ==
    [op |-> "none", table |-> "none", chat_id |-> 0, subs |-> <<>>, alerts |-> <<>>,
     bool |-> FALSE, row |-> None, rows |-> <<>>]

Init ==
    /\ now = 0
    /\ cache = <<>>
    /\ last = NoCall
    /\ alerts = <<>>
    /\ job = JobIdle
    /\ subs = <<>>
    /\ daily = DailyIdle
    /\ ret = NoOp

\* time passes, up to the bound of the specification
Tick(bound) ==
    /\ now < bound
    /\ now' = now + 1
    /\ UNCHANGED <<cache, last, alerts, job, subs, daily, ret>>

\* an interactive request (_fetch_and_reply) reaching get_metal_prices
Request(metal, city, force, docs) ==
    \* the network is asked only by a call that gets as far as the fetch
    LET asks == get_metal_prices(cache, now, metal, city, force, NoResponse).fetches > 0 IN
    \E resp \in (IF asks THEN Responses(docs) ELSE {NoResponse}) :
        LET done(r) ==
                /\ cache' = r.cache
                /\ last' = CallRecord(cache, now, metal, city, force, resp, r)
                /\ UNCHANGED <<now, alerts, job, subs, daily, ret>>
        IN  done(get_metal_prices(cache, now, metal, city, force, resp))

(***************************************************************************)
(* The fetch orchestrator alone: requests for any identifiers, in any      *)
(* letter case, against every page of Docs                                 *)
(***************************************************************************)
Gold_     == <<"G", "o", "l", "d">>
platinum  == <<"p", "l", "a", "t", "i", "n", "u", "m">>
MUMBAI_   == <<"M", "U", "M", "B", "A", "I">>
atlantis  == <<"a", "t", "l", "a", "n", "t", "i", "s">>

FetchMetals == {Gold_, silver, platinum}
FetchCities == {MUMBAI_, atlantis}
FetchDocs   == 1..Len(Docs)

FetchRequest ==
    \E metal \in FetchMetals, city \in FetchCities, force \in BOOLEAN :
        Request(metal, city, force, FetchDocs)

FetchNext == FetchRequest \/ Tick(MaxTime)

FetchSpec == Init /\ [][FetchNext]_vars

(***************************************************************************)
(* The extraction alone (lines 377-416), on every page of a bounded family *)
(***************************************************************************)
ExtractMaxRows == 3

\* the tr of a tbody: two cells (twice), one cell (an advertisement), three cells
ExtractTrs == { <<g1, p6010>>, <<g8, p7000>>, <<adCell>>, <<g8, pNA, chUp>> }

RECURSIVE SeqsUpTo(_, _)
SeqsUpTo(S, n) ==
    IF n = 0 THEN {<<>>}
    ELSE {<<>>} \cup {<<x>> \o s : x \in S, s \in SeqsUpTo(S, n - 1)}

ExtractTheads == {None, Some(<<>>), Some(<<hGram>>), Some(<<hGram, hToday>>)}

ExtractTbodies == {None} \cup {Some(trs) : trs \in SeqsUpTo(ExtractTrs, ExtractMaxRows)}

ExtractTables ==
    {Table(class, thead, tbody) :
        class \in {{"table"}, {"table", MARKER_CLASS}},
        thead \in ExtractTheads, tbody \in ExtractTbodies}

\* a section without title, the section under test, a later section of gold
ExtractPages ==
    {Page(<< Section(None, <<GoldTable(p6000)>>),
             Section(title, tables),
             Section(Some(tGold), <<>>) >>) :
        title \in {Some(tOther), Some(tGold), Some(tSilver)},
        tables \in {<<>>} \cup {<<t>> : t \in ExtractTables}
                        \cup {<<Table({"table"}, Some(<<hGram>>), Some(<< <<g1>> >>)), t>> :
                                  t \in {x \in ExtractTables : MARKER_CLASS \in x.class}}}

ExtractInit ==
    /\ last \in {[op |-> "page", metal |-> metal, doc |-> doc] :
                    metal \in DOMAIN METALS, doc \in ExtractPages}
    /\ now = 0 /\ cache = <<>> /\ alerts = <<>> /\ job = JobIdle
    /\ subs = <<>> /\ daily = DailyIdle /\ ret = NoOp

Extract ==
    /\ last.op = "page"
    /\ last' = [op |-> "extracted", metal |-> last.metal, doc |-> last.doc,
                result |-> ExtractTable(last.doc, METALS[last.metal])]
    /\ UNCHANGED <<now, cache, alerts, job, subs, daily, ret>>

ExtractSpec == ExtractInit /\ [][Extract]_vars

(***************************************************************************)
(* _build_table_str alone, on every table of a bounded family              *)
(***************************************************************************)
RenderMaxRows == 2

ch10gram == <<"1", "0", "-", "g", "r", "a", "m">>
hMedal   == <<"MEDAL1", " ", "C", "h", "g">>

RenderHeaders ==
    { <<>>, <<hGram, hToday>>, Headers4, <<hGram, hToday, hYday, hMedal>> }

\* rows of 2, 3, 4 and 5 cells; the fourth cell starts with a hyphen, with the
\* minus sign, with a plus, with a digit before a hyphen, or is empty
RenderRows ==
    { <<g1, p6000>>,
      <<g8, adCell, p6010>>,
      <<g1, p6000, p6010, chDown>>,
      <<g8, p7000, adCell, chDownU>>,
      <<g1, pNA, p6000, chUp>>,
      <<g8, p6000, p6000, ch10gram>>,
      <<g1, p6000, p6000, <<>> >>,
      <<g1, p6000, p6010, chDown, adCell>> }

RenderInit ==
    /\ last \in {[op |-> "table", headers |-> headers, rows |-> rows] :
                    headers \in RenderHeaders, rows \in SeqsUpTo(RenderRows, RenderMaxRows)}
    /\ now = 0 /\ cache = <<>> /\ alerts = <<>> /\ job = JobIdle
    /\ subs = <<>> /\ daily = DailyIdle /\ ret = NoOp

\* one call of _build_table_str: whether it raised, the rows as the call left
\* them (the list is changed in place), and the lines of the string returned
Render ==
    /\ last.op = "table"
    /\ last' = [op |-> "rendered", headers |-> last.headers, rows |-> last.rows,
                raised |-> BuildTableRaises(last.headers, last.rows),
                shown |-> InjectGlyphs(last.rows),
                lines |-> IF BuildTableRaises(last.headers, last.rows) THEN <<>>
                          ELSE TableLines(last.headers, last.rows)]
    /\ UNCHANGED <<now, cache, alerts, job, subs, daily, ret>>

RenderSpec == RenderInit /\ [][Render]_vars

(***************************************************************************)
(* _parse_price_from_cell alone, on every cell of a bounded family: what   *)
(* stands before the number, the number as written, what stands behind it  *)
(***************************************************************************)
CellPrefixes == { <<>>, <<" ">>, <<"RUPEE">>, <<"RUPEE", " ">>, <<"NL", "RUPEE">> }

\* the number as written, with the value float() gives it once the commas are
\* out (in hundredths), None where float() raises ValueError
CellBodies ==
    { <<(<<"6", ",", "1", "2", "3">>), Some(612300)>>,
      <<(<<"1", ",", "0", "0", ",", "0", "0", "0">>), Some(10000000)>>,
      <<(<<"6", "0", "0", "0">>), Some(600000)>>,
      <<(<<"6", ",", "1", "2", "3", ".", "5", "0">>), Some(612350)>>,
      <<(<<"0">>), Some(0)>>,
      <<(<<"-", "5">>), Some(0 - 500)>>,
      <<(<<"+", ".", "5">>), Some(50)>>,
      <<(<<"7", ".">>), Some(700)>>,
      <<(<<>>), None>>,
      <<(<<",">>), None>>,
      <<(<<"N", "/", "A">>), None>>,
      <<(<<"a", "b", "c">>), None>>,
      <<(<<"6", ".", "1", ".", "2">>), None>>,
      <<(<<"-">>), None>>,
      <<(<<"6", "-", "7">>), None>> }

\* behind the number: nothing, white space, a word after white space, a unit
\* written against it
CellSuffixes == { <<>>, <<" ">>, <<" ", "I", "N", "R">>, <<"NL", "x">>, <<"/", "g">> }

ParseInit ==
    /\ last \in {[op |-> "cell", prefix |-> prefix, body |-> body, suffix |-> suffix,
                   text |-> prefix \o body[1] \o suffix] :
                    prefix \in CellPrefixes, body \in CellBodies, suffix \in CellSuffixes}
    /\ now = 0 /\ cache = <<>> /\ alerts = <<>> /\ job = JobIdle
    /\ subs = <<>> /\ daily = DailyIdle /\ ret = NoOp

\* one call of _parse_price_from_cell
ParseCell ==
    /\ last.op = "cell"
    /\ last' = [last EXCEPT !.op = "parsed"] @@ [result |-> _parse_price_from_cell(last.text)]
    /\ UNCHANGED <<now, cache, alerts, job, subs, daily, ret>>

ParseSpec == ParseInit /\ [][ParseCell]_vars

(***************************************************************************)
(* The price cache alone: _set_cache called with any identifiers, in any   *)
(* letter case, and any message and price, as the clock advances           *)
(***************************************************************************)
GOLD_   == <<"G", "O", "L", "D">>
Mumbai_ == <<"M", "u", "m", "b", "a", "i">>

\* the arguments of the calls: metal, city, message, price
CacheSets ==
    { <<Gold_, MUMBAI_, "first", 600000>>,
      <<gold, mumbai, "second", 0>>,
      <<silver, Mumbai_, "first", 700050>>,
      <<GOLD_, bangalore, "third", 600000>> }

\* the spellings a reader may use
CacheSpellings == {gold, Gold_, GOLD_, silver, mumbai, MUMBAI_, Mumbai_, bangalore}

\* the record of one call of _set_cache on cache c at time t
SetRecord(c, t, metal, city, message, price) ==
    [op |-> "set", metal |-> metal, city |-> city, message |-> message, price |-> price,
     at |-> t, before |-> c]

SetCache(metal, city, message, price) ==
    /\ cache' = _set_cache(cache, now, metal, city, message, price)
    /\ last' = SetRecord(cache, now, metal, city, message, price)
    /\ UNCHANGED <<now, alerts, job, subs, daily, ret>>

CacheNext ==
    \/ \E a \in CacheSets : SetCache(a[1], a[2], a[3], a[4])
    \/ Tick(MaxTime)

CacheSpec == Init /\ [][CacheNext]_vars

(***************************************************************************)
(* The alerts table and its commands                                       *)
(***************************************************************************)
MaxChats == 2

ChatIds == 1..MaxChats

\* set_alert: INSERT ... ON CONFLICT(chat_id) DO UPDATE
set_alert(tbl, chat_id, metal, city, threshold) ==
    [k \in DOMAIN tbl \cup {chat_id} |->
        IF k = chat_id
        THEN [chat_id |-> chat_id, metal |-> metal, city |-> city, threshold |-> threshold]
        ELSE tbl[k]]

\* remove_alert: DELETE ... WHERE chat_id = ?
remove_alert(tbl, chat_id) == [k \in DOMAIN tbl \ {chat_id} |-> tbl[k]]

\* get_all_alerts: the rows in the order of their key
RECURSIVE RowsInOrder(_, _)
RowsInOrder(tbl, ids) ==
    IF ids = {} THEN <<>>
    ELSE LET first == CHOOSE i \in ids : \A j \in ids : i <= j
         IN  <<tbl[first]>> \o RowsInOrder(tbl, ids \ {first})

get_all_alerts(tbl) == RowsInOrder(tbl, DOMAIN tbl)

\* the loop of cmd_alert over the arguments after the price: the last metal and
\* the last city named win
RECURSIVE PickMetalCity(_, _, _)
PickMetalCity(lower_args, metal, city) ==
    IF lower_args = <<>> THEN <<metal, city>>
    ELSE LET arg == Head(lower_args) IN
         IF arg \in DOMAIN METALS THEN PickMetalCity(Tail(lower_args), arg, city)
         ELSE IF arg \in DOMAIN CITIES THEN PickMetalCity(Tail(lower_args), metal, arg)
         ELSE PickMetalCity(Tail(lower_args), metal, city)

\* mutant: only a negative price is refused
cmd_alert_accepts_zero(tbl, chat_id, args) ==
    LET chosen(threshold, mc) == set_alert(tbl, chat_id, mc[1], mc[2], threshold)
        named(threshold, lower_args) ==
            chosen(threshold, PickMetalCity(lower_args, DEFAULT_METAL, DEFAULT_CITY))
        priced(threshold) ==
            IF threshold = None \/ threshold[1] < 0 THEN tbl
            ELSE named(threshold[1], [i \in 1..Len(args) - 1 |-> Lower(args[i + 1])])
    IN  IF args = <<>> THEN tbl
        ELSE priced(ParseFloat(Remove(args[1], ",")))

\* the alerts table after /alert with these arguments from this chat
cmd_alert(tbl, chat_id, args) ==
    LET chosen(threshold, mc) == set_alert(tbl, chat_id, mc[1], mc[2], threshold)
        named(threshold, lower_args) ==
            chosen(threshold, PickMetalCity(lower_args, DEFAULT_METAL, DEFAULT_CITY))
        priced(threshold) ==
            IF threshold = None \/ threshold[1] <= 0 THEN tbl
            ELSE named(threshold[1], [i \in 1..Len(args) - 1 |-> Lower(args[i + 1])])
    IN  IF args = <<>> THEN tbl
        ELSE priced(ParseFloat(Remove(args[1], ",")))

\* /alert and /cancelalert write the alerts table only, and the job reads that
\* table once, at its start: a command handled while the job awaits
\* send_message has the effect of the same command handled after the run, so
\* the commands are taken between the runs
HandlersMayRun == job.pc = "idle"

CmdAlert(chat_id, args) ==
    /\ HandlersMayRun
    /\ alerts' = cmd_alert(alerts, chat_id, args)
    /\ UNCHANGED <<now, cache, last, job, subs, daily, ret>>

CmdCancelAlert(chat_id) ==
    /\ HandlersMayRun
    /\ alerts' = remove_alert(alerts, chat_id)
    /\ UNCHANGED <<now, cache, last, job, subs, daily, ret>>

(***************************************************************************)
(* The subscriptions table and the operations of the database layer.  A    *)
(* table with chat_id INTEGER PRIMARY KEY is the map from chat_id to its   *)
(* row that SQLite stores, read in the order of the key.                   *)
(***************************************************************************)
\* mutant: ON CONFLICT(chat_id) DO NOTHING, the row of the chat is kept
add_subscription_keeps_row(tbl, chat_id, city, metal) ==
    [k \in DOMAIN tbl \cup {chat_id} |->
        IF k \in DOMAIN tbl THEN tbl[k]
        ELSE [chat_id |-> chat_id, city |-> city, metal |-> metal]]

\* add_subscription: INSERT ... ON CONFLICT(chat_id) DO UPDATE
add_subscription(tbl, chat_id, city, metal) ==
    [k \in DOMAIN tbl \cup {chat_id} |->
        IF k = chat_id
        THEN [chat_id |-> chat_id, city |-> city, metal |-> metal]
        ELSE tbl[k]]

\* remove_subscription: DELETE ... WHERE chat_id = ?
remove_subscription(tbl, chat_id) == [k \in DOMAIN tbl \ {chat_id} |-> tbl[k]]

\* cur.rowcount > 0 of a DELETE ... WHERE chat_id = ?
RowCountPositive(tbl, chat_id) == chat_id \in DOMAIN tbl

\* get_subscription, get_alert: fetchone() of SELECT ... WHERE chat_id = ?
get_subscription(tbl, chat_id) == IF chat_id \in DOMAIN tbl THEN Some(tbl[chat_id]) ELSE None

get_alert(tbl, chat_id) == IF chat_id \in DOMAIN tbl THEN Some(tbl[chat_id]) ELSE None

get_all_subscriptions(tbl) == RowsInOrder(tbl, DOMAIN tbl)

\* the record of one operation on the tables s (subscriptions) and a (alerts)
OpRecord(op, table, chat_id, s, a, bool, row, rows) ==
    [op |-> op, table |-> table, chat_id |-> chat_id, subs |-> s, alerts |-> a,
     bool |-> bool, row |-> row, rows |-> rows]

AddSubscription(chat_id, city, metal) ==
    /\ subs' = add_subscription(subs, chat_id, city, metal)
    /\ ret' = OpRecord("put", "subscriptions", chat_id, subs, alerts, FALSE,
                       Some([chat_id |-> chat_id, city |-> city, metal |-> metal]), <<>>)
    /\ UNCHANGED <<now, cache, last, alerts, job, daily>>

RemoveSubscription(chat_id) ==
    /\ subs' = remove_subscription(subs, chat_id)
    /\ ret' = OpRecord("delete", "subscriptions", chat_id, subs, alerts,
                       RowCountPositive(subs, chat_id), None, <<>>)
    /\ UNCHANGED <<now, cache, last, alerts, job, daily>>

GetSubscription(chat_id) ==
    /\ ret' = OpRecord("get", "subscriptions", chat_id, subs, alerts, FALSE,
                       get_subscription(subs, chat_id), <<>>)
    /\ UNCHANGED <<now, cache, last, alerts, job, subs, daily>>

GetAllSubscriptions ==
    /\ ret' = OpRecord("list", "subscriptions", 0, subs, alerts, FALSE, None,
                       get_all_subscriptions(subs))
    /\ UNCHANGED <<now, cache, last, alerts, job, subs, daily>>

SetAlert(chat_id, metal, city, threshold) ==
    /\ alerts' = set_alert(alerts, chat_id, metal, city, threshold)
    /\ ret' = OpRecord("put", "alerts", chat_id, subs, alerts, FALSE,
                       Some([chat_id |-> chat_id, metal |-> metal, city |-> city,
                             threshold |-> threshold]), <<>>)
    /\ UNCHANGED <<now, cache, last, job, subs, daily>>

RemoveAlert(chat_id) ==
    /\ alerts' = remove_alert(alerts, chat_id)
    /\ ret' = OpRecord("delete", "alerts", chat_id, subs, alerts,
                       RowCountPositive(alerts, chat_id), None, <<>>)
    /\ UNCHANGED <<now, cache, last, job, subs, daily>>

GetAlert(chat_id) ==
    /\ ret' = OpRecord("get", "alerts", chat_id, subs, alerts, FALSE,
                       get_alert(alerts, chat_id), <<>>)
    /\ UNCHANGED <<now, cache, last, alerts, job, subs, daily>>

GetAllAlerts ==
    /\ ret' = OpRecord("list", "alerts", 0, subs, alerts, FALSE, None,
                       get_all_alerts(alerts))
    /\ UNCHANGED <<now, cache, last, alerts, job, subs, daily>>

\* the subscriptions table after /subscribe with these arguments from this chat
cmd_subscribe(tbl, chat_id, context_args) ==
    LET chosen(args) ==
            LET metal == IF args # <<>> /\ args[1] \in DOMAIN METALS
                         THEN args[1] ELSE DEFAULT_METAL
                city  == IF Len(args) > 1 /\ args[2] \in DOMAIN CITIES
                         THEN args[2] ELSE DEFAULT_CITY
            IN  IF args # <<>> /\ args[1] \in DOMAIN CITIES /\ args[1] \notin DOMAIN METALS
                THEN add_subscription(tbl, chat_id, args[1], DEFAULT_METAL)
                ELSE add_subscription(tbl, chat_id, city, metal)
    IN  chosen([i \in 1..Len(context_args) |-> Lower(context_args[i])])

\* a handler runs when no job is between two of its awaits
JobYielded   == job.pc \in {"idle", "send"}
DailyYielded == daily.pc \in {"idle", "send"}

CmdSubscribe(chat_id, args) ==
    /\ JobYielded /\ DailyYielded
    /\ subs' = cmd_subscribe(subs, chat_id, args)
    /\ UNCHANGED <<now, cache, last, alerts, job, daily, ret>>

CmdUnsubscribe(chat_id) ==
    /\ JobYielded /\ DailyYielded
    /\ subs' = remove_subscription(subs, chat_id)
    /\ UNCHANGED <<now, cache, last, alerts, job, daily, ret>>

(***************************************************************************)
(* job_daily_prices.  For each subscription read at the start the job      *)
(* calls get_metal_prices and then awaits send_message; an exception of    *)
(* either is caught and the loop goes on.  The log holds, per subscription  *)
(* gone through, how its turn ended; a finished run stands at "done" until *)
(* the coroutine returns.                                                  *)
(***************************************************************************)
\* the job record with the end of the turn of subscription i written down
Logged(d, outcome) ==
    [d EXCEPT !.log = Append(@, [chat_id |-> d.subs[d.i].chat_id, outcome |-> outcome])]

\* mutant: an exception in a turn ends the run
NextSubscription_aborts(d) ==
    [d EXCEPT !.i = @ + 1,
              !.pc = IF d.i + 1 > Len(d.subs) \/ d.log[Len(d.log)].outcome # "sent"
                     THEN "done" ELSE "fetch"]

\* the job record when subscription i is left: the next one, or the end
NextSubscription(d) ==
    [d EXCEPT !.i = @ + 1, !.pc = IF d.i + 1 > Len(d.subs) THEN "done" ELSE "fetch"]

\* line 701: read the subscriptions; the loop has nothing to do without any
DailyStart ==
    /\ daily.pc = "idle"
    /\ LET started(rows) ==
               IF rows = <<>> THEN DailyIdle
               ELSE [DailyIdle EXCEPT !.pc = "fetch", !.subs = rows]
       IN  daily' = started(get_all_subscriptions(subs))
    /\ UNCHANGED <<now, cache, last, alerts, job, subs, ret>>

\* lines 703-709: get_metal_prices for the next subscription
DailyFetch(docs) ==
    /\ daily.pc = "fetch"
    /\ LET sub  == daily.subs[daily.i]
           asks == get_metal_prices(cache, now, sub.metal, sub.city, FALSE,
                                    NoResponse).fetches > 0
           fetched(r) ==
               /\ cache' = r.cache
               /\ daily' = IF r.raised THEN NextSubscription(Logged(daily, "fetch_raised"))
                           ELSE [daily EXCEPT !.pc = "send"]
       IN  \E resp \in (IF asks THEN Responses(docs) ELSE {NoResponse}) :
               fetched(get_metal_prices(cache, now, sub.metal, sub.city, FALSE, resp))
    /\ UNCHANGED <<now, last, alerts, job, subs, ret>>

\* lines 713-719: send_message returns or raises, then the next subscription
DailySend ==
    /\ daily.pc = "send"
    /\ \E raises \in BOOLEAN :
           daily' = NextSubscription(Logged(daily, IF raises THEN "send_raised" ELSE "sent"))
    /\ UNCHANGED <<now, cache, last, alerts, job, subs, ret>>

\* the coroutine returns
DailyReturn ==
    /\ daily.pc = "done"
    /\ daily' = DailyIdle
    /\ UNCHANGED <<now, cache, last, alerts, job, subs, ret>>

(***************************************************************************)
(* The daily job alone: rows written to the subscriptions table (by        *)
(* /subscribe, or directly with identifiers the bot does not support), the *)
(* job, the clock                                                          *)
(***************************************************************************)
DailyRows == {<<mumbai, gold>>, <<atlantis, gold>>, <<mumbai, platinum>>}

DailyDocs == {1, 3}

DailyMaxTime == 1

DailyWrite ==
    /\ daily.pc = "idle"
    /\ \E chat_id \in ChatIds :
           \/ \E row \in DailyRows :
                  /\ subs' = add_subscription(subs, chat_id, row[1], row[2])
                  /\ UNCHANGED <<now, cache, last, alerts, job, daily, ret>>
           \/ CmdUnsubscribe(chat_id)

DailyJob == DailyStart \/ DailyFetch(DailyDocs) \/ DailySend \/ DailyReturn

DailyNext == DailyWrite \/ DailyJob \/ Tick(DailyMaxTime)

DailySpec == Init /\ [][DailyNext]_vars

(***************************************************************************)
(* The database layer alone: every operation on both tables, from the      *)
(* chats, in any order                                                     *)
(***************************************************************************)
StoreSubscriptions == {<<mumbai, gold>>, <<delhi, silver>>}

StoreAlerts == {<<gold, bangalore, 650000>>, <<silver, mumbai, 7000000>>}

StoreNext ==
    \/ \E chat_id \in ChatIds :
           \/ \E s \in StoreSubscriptions : AddSubscription(chat_id, s[1], s[2])
           \/ RemoveSubscription(chat_id)
           \/ GetSubscription(chat_id)
           \/ \E a \in StoreAlerts : SetAlert(chat_id, a[1], a[2], a[3])
           \/ RemoveAlert(chat_id)
           \/ GetAlert(chat_id)
    \/ GetAllSubscriptions
    \/ GetAllAlerts

StoreSpec == Init /\ [][StoreNext]_vars

(***************************************************************************)
(* job_check_alerts.  The job gives up control only where it awaits        *)
(* send_message; the clock may advance between two groups.  A finished run *)
(* stands at "done" with what it did until the coroutine returns.          *)
(***************************************************************************)
\* mutant: one group per alert, a pair that occurs twice is processed twice
RECURSIVE GroupKeys_per_alert(_)
GroupKeys_per_alert(rows) ==
    IF rows = <<>> THEN <<>>
    ELSE <<(<<Head(rows).metal, Head(rows).city>>)>> \o GroupKeys_per_alert(Tail(rows))

\* the keys of groups, in the order of insertion
RECURSIVE GroupKeys(_)
GroupKeys(rows) ==
    IF rows = <<>> THEN <<>>
    ELSE LET before == GroupKeys(SubSeq(rows, 1, Len(rows) - 1))
             key    == <<rows[Len(rows)].metal, rows[Len(rows)].city>>
         IN  IF \E i \in 1..Len(before) : before[i] = key THEN before
             ELSE before \o <<key>>

\* groups[key]
GroupAlerts(rows, key) == SelectSeq(rows, LAMBDA a : <<a.metal, a.city>> = key)

\* mutant: the group is skipped only for a negative price
SkipGroup_negative_only(current_price) == current_price = None \/ current_price[1] < 0

\* line 750: current_price is None or current_price <= 0
SkipGroup(current_price) == current_price = None \/ current_price[1] <= 0

\* mutant: a price equal to the threshold fires
Fires_inclusive(current_price, alert) == current_price <= alert.threshold

\* line 757: current_price < alert["threshold"]
Fires(current_price, alert) == current_price < alert.threshold

\* lines 738-748: the price of one group, the cache left, whether
\* get_metal_prices was called and whether its exception ended the group
ResolvePrice(c, t, metal, city, resp) ==
    LET reread(r, again) ==
            [price |-> IF again # None THEN Some(again[1].price) ELSE None,
             cache |-> r.cache, called |-> 1, raised |-> FALSE]
        fetched(r) ==
            IF r.raised
            THEN [price |-> None, cache |-> r.cache, called |-> 1, raised |-> TRUE]
            ELSE reread(r, _get_cached(r.cache, t, metal, city))
        looked_up(cached) ==
            IF cached # None
            THEN [price |-> Some(cached[1].price), cache |-> c, called |-> 0,
                  raised |-> FALSE]
            ELSE fetched(get_metal_prices(c, t, metal, city, FALSE, resp))
    IN  looked_up(_get_cached(c, t, metal, city))

\* the index of the first alert of the group from index from on that fires,
\* Len(group) + 1 when none does
NextFiring(group, current_price, from) ==
    LET first(hits) ==
            IF hits = {} THEN Len(group) + 1 ELSE CHOOSE i \in hits : \A j \in hits : i <= j
    IN  first({i \in from..Len(group) : Fires(current_price, group[i])})

\* mutant: the run ends at a group that got no price
NextGroup_aborts(j) ==
    [j EXCEPT !.gi = @ + 1, !.ai = 1, !.price = 0,
              !.pc = IF j.gi + 1 > Len(j.groups) \/ j.log[j.gi].price = None
                     THEN "done" ELSE "group"]

\* the job record when group gi is left: on to the next group, or the end
NextGroup(j) ==
    [j EXCEPT !.gi = @ + 1, !.ai = 1, !.price = 0,
              !.pc = IF j.gi + 1 > Len(j.groups) THEN "done" ELSE "group"]

\* mutant: an alert the run before fired for is left out of this run
JobStart_skips_fired ==
    /\ job.pc = "idle"
    /\ LET started(rows) ==
               IF rows = <<>> THEN JobIdle
               ELSE [JobIdle EXCEPT !.pc = "group", !.alerts = rows,
                                    !.groups = GroupKeys(rows), !.prev = job.prev]
       IN  job' = started(SelectSeq(get_all_alerts(alerts),
                                    LAMBDA a : a.chat_id \notin job.prev))
    /\ UNCHANGED <<now, cache, last, alerts, subs, daily, ret>>

\* lines 724-734: read the alerts, return when there are none, build the groups
JobStart ==
    /\ job.pc = "idle"
    /\ LET started(rows) ==
               IF rows = <<>> THEN JobIdle
               ELSE [JobIdle EXCEPT !.pc = "group", !.alerts = rows,
                                    !.groups = GroupKeys(rows), !.prev = job.prev]
       IN  job' = started(get_all_alerts(alerts))
    /\ UNCHANGED <<now, cache, last, alerts, subs, daily, ret>>

\* lines 736-757: the price of the next group, up to the first message to send
JobGroup(docs) ==
    /\ job.pc = "group"
    /\ LET key   == job.groups[job.gi]
           asks  == ResolvePrice(cache, now, key[1], key[2], NoResponse).called > 0
           entry(rp) == [key |-> key,
                         valid |-> /\ key \in DOMAIN cache
                                   /\ now - cache[key].timestamp < CACHE_TTL,
                         called |-> rp.called, price |-> rp.price]
           evaluated(rp, group, logged) ==
               LET goes(first) ==
                       IF first > Len(group) THEN NextGroup(logged)
                       ELSE [logged EXCEPT !.pc = "send", !.ai = first,
                                           !.price = rp.price[1]]
               IN  goes(IF SkipGroup(rp.price) THEN Len(group) + 1
                        ELSE NextFiring(group, rp.price[1], 1))
           resolved(rp) ==
               /\ cache' = rp.cache
               /\ job' = evaluated(rp, GroupAlerts(job.alerts, key),
                                   [job EXCEPT !.log = Append(@, entry(rp))])
       IN
       \E resp \in (IF asks THEN Responses(docs) ELSE {NoResponse}) :
           resolved(ResolvePrice(cache, now, key[1], key[2], resp))
    /\ UNCHANGED <<now, last, alerts, subs, daily, ret>>

\* lines 758-777: send_message for the alert that fires, which returns or
\* raises (caught and logged), then on to the next alert of the group that fires
JobSend ==
    /\ job.pc = "send"
    /\ \E raises \in BOOLEAN :
       LET sent(alert) ==
               [job EXCEPT !.fired = @ \cup {alert.chat_id},
                           !.failed = IF raises THEN @ \cup {alert.chat_id} ELSE @]
           goes(group, next) ==
               IF next > Len(group) THEN NextGroup(sent(group[job.ai]))
               ELSE [sent(group[job.ai]) EXCEPT !.ai = next]
           sending(group) == goes(group, NextFiring(group, job.price, job.ai + 1))
       IN  job' = sending(GroupAlerts(job.alerts, job.groups[job.gi]))
    /\ UNCHANGED <<now, cache, last, alerts, subs, daily, ret>>

\* the coroutine returns
JobReturn ==
    /\ job.pc = "done"
    /\ job' = [JobIdle EXCEPT !.prev = job.fired]
    /\ UNCHANGED <<now, cache, last, alerts, subs, daily, ret>>

(***************************************************************************)
(* The alert evaluator: /alert and /cancelalert from the chats, the job,   *)
(* the clock                                                               *)
(***************************************************************************)
a6000   == <<"6", ",", "0", "0", "0">>
a7500   == <<"7", "5", "0", "0">>
aZero   == <<"0">>
aWord   == <<"l", "o", "w">>
Silver_ == <<"S", "i", "l", "v", "e", "r">>

AlertArgs ==
    { <<>>, <<aWord>>, <<aZero, Silver_>>,
      <<a6000>>, <<a7500, platinum, bangalore>>, <<a6000, Silver_>> }

AlertDocs == {1, 2}

AlertMaxTime == 2

AlertCommand ==
    \E chat_id \in ChatIds :
        \/ \E args \in AlertArgs : CmdAlert(chat_id, args)
        \/ CmdCancelAlert(chat_id)

AlertJob == JobStart \/ JobGroup(AlertDocs) \/ JobSend \/ JobReturn

AlertNext == AlertCommand \/ AlertJob \/ Tick(AlertMaxTime)

AlertSpec == Init /\ [][AlertNext]_vars

(***************************************************************************)
(* The commands that write the two tables, from the chats, with arguments  *)
(* of every kind                                                           *)
(***************************************************************************)
aNeg == <<"-", "5">>

\* prices /alert refuses: no number, zero, below zero
CommandBadPrices == {aWord, aZero, aNeg}

CommandAlertArgs ==
    { <<>>, <<aWord>>, <<aZero, Silver_>>, <<aNeg, gold, mumbai>>,
      <<a7500, platinum, atlantis>>, <<a6000, MUMBAI_, Silver_>> }

CommandSubscribeArgs ==
    { <<>>, <<mumbai>>, <<Silver_, MUMBAI_>>, <<delhi, silver>>, <<platinum, delhi>> }

CommandNext ==
    \E chat_id \in ChatIds :
        \/ \E args \in CommandAlertArgs : CmdAlert(chat_id, args)
        \/ CmdCancelAlert(chat_id)
        \/ \E args \in CommandSubscribeArgs : CmdSubscribe(chat_id, args)
        \/ CmdUnsubscribe(chat_id)

CommandSpec == Init /\ [][CommandNext]_vars

(***************************************************************************)
(* Everything that touches the cache on the one event loop: interactive    *)
(* requests, the two jobs and the commands that feed them.  A coroutine    *)
(* runs from one await to the next before another one is resumed.          *)
(***************************************************************************)
ConcChats == {1}

ConcAlertArgs == {<<a7500>>}

ConcSubscribeArgs == {<<Silver_>>}

ConcDocs == {1, 2}

\* the metal of the interactive requests: one in mixed case, one refused
ConcMetals == {Gold_, platinum}

ConcMaxTime == 1

ConcRequest ==
    /\ JobYielded /\ DailyYielded
    /\ \E metal \in ConcMetals, force \in BOOLEAN :
           Request(metal, bangalore, force, ConcDocs)

ConcCommand ==
    /\ DailyYielded
    /\ \E chat_id \in ConcChats :
           \/ \E args \in ConcAlertArgs : CmdAlert(chat_id, args)
           \/ CmdCancelAlert(chat_id)
           \/ \E args \in ConcSubscribeArgs : CmdSubscribe(chat_id, args)
           \/ CmdUnsubscribe(chat_id)

ConcAlertJob ==
    /\ DailyYielded
    /\ (JobStart \/ JobGroup(ConcDocs) \/ JobSend \/ JobReturn)

ConcDailyJob ==
    /\ JobYielded
    /\ (DailyStart \/ DailyFetch(ConcDocs) \/ DailySend \/ DailyReturn)

ConcNext == ConcRequest \/ ConcCommand \/ ConcAlertJob \/ ConcDailyJob \/ Tick(ConcMaxTime)

ConcSpec == Init /\ [][ConcNext]_vars

(***************************************************************************)
(* Properties of get_metal_prices, stated on the record of the latest call *)
(***************************************************************************)
Called == last.op = "get"

LastMetal == Lower(last.metal)
LastCity  == Lower(last.city)
LastKey   == <<LastMetal, LastCity>>

Supported == Called /\ LastMetal \in DOMAIN METALS /\ LastCity \in DOMAIN CITIES

\* the key of the call held an entry younger than the TTL when the call was made
PreValid == last.pre # None /\ last.at - last.pre[1].timestamp < CACHE_TTL

Returned(kind) == Called /\ ~last.raised /\ last.value # None /\ last.value[1].kind = kind

FallbackKinds == {"network_error", "http_error", "parse_error", "unexpected_error"}

Failed == Called /\ (last.raised \/ last.value[1].kind \in FallbackKinds)

\* C1: an unforced call for a supported pair whose entry is within TTL returns
\* exactly the stored message, fetches nothing and leaves the cache unchanged
C1_CacheHit ==
    (Supported /\ ~last.force /\ PreValid) =>
        /\ ~last.raised
        /\ last.value = Some(last.pre[1].data)
        /\ last.fetches = 0
        /\ last.writes = 0
        /\ ~last.changed

C1_Witness ==
    /\ Supported /\ ~last.force /\ PreValid
    /\ last.metal = Gold_ /\ last.city = MUMBAI_
    /\ last.at > last.pre[1].timestamp
    /\ last.value = Some(last.pre[1].data)
    /\ DOMAIN cache = {<<gold, mumbai>>, <<silver, mumbai>>}

C3_FailureKeepsCache ==
    /\ Failed =>
        /\ ~last.changed
        /\ last.writes = 0
        /\ last.pre # None => (LastKey \in DOMAIN cache /\ cache[LastKey] = last.pre[1])
        /\ (Supported /\ PreValid /\ now - last.pre[1].timestamp < CACHE_TTL) =>
               \A resp \in Responses(1..Len(Docs)) :
                   LET served(again) ==
                           again.value = Some(last.pre[1].data) /\ again.fetches = 0
                   IN  served(get_metal_prices(cache, now, last.metal, last.city,
                                               FALSE, resp))
    /\ (Called /\ (last.writes > 0 \/ last.changed)) =>
        /\ last.fetches = 1 /\ ~last.resp.exc /\ last.resp.status_code = 200
        /\ Parsed[LastMetal, last.resp.doc].kind = "prices"

C3_Witness ==
    /\ Failed /\ Supported /\ last.force /\ PreValid
    /\ Returned("http_error")
    /\ now > last.at
    /\ now - last.pre[1].timestamp < CACHE_TTL

\* C5: the cache read of a call gives the stored entry if and only if
\* now - fetched_at < TTL: valid at T+TTL-1, absent at T+TTL and at T+TTL+1
C5_TTLStrict ==
    (Supported /\ ~last.force) =>
        /\ last.reads = 1
        /\ last.cached = (IF last.pre # None /\ last.at - last.pre[1].timestamp < CACHE_TTL
                          THEN last.pre ELSE None)
        /\ (last.pre # None /\ last.at = last.pre[1].timestamp + CACHE_TTL - 1)
               => last.cached = last.pre
        /\ (last.pre # None /\ last.at = last.pre[1].timestamp + CACHE_TTL)
               => last.cached = None
        /\ (last.pre # None /\ last.at = last.pre[1].timestamp + CACHE_TTL + 1)
               => last.cached = None

C5_Witness ==
    /\ Supported /\ ~last.force /\ last.pre # None
    /\ last.at = last.pre[1].timestamp + CACHE_TTL
    /\ last.cached = None

\* the cache read at T+TTL-1 is made too
C5_ValidReached ==
    /\ Supported /\ ~last.force /\ last.pre # None
    /\ last.at = last.pre[1].timestamp + CACHE_TTL - 1
    /\ last.cached = last.pre

\* C6: a fetch that succeeds overwrites the entry of the lower-cased key with
\* the message returned and the current time, and an unforced call that follows
\* at once returns that message from the cache
C6_SuccessPopulatesCache ==
    (Called /\ last.fetches > 0 /\ Returned("prices")) =>
        /\ LastKey \in DOMAIN cache
        /\ cache[LastKey].data = last.value[1]
        /\ cache[LastKey].timestamp = last.at
        /\ cache[LastKey].price = OrZero(Parsed[LastMetal, last.resp.doc].price)
        /\ now = last.at =>
               \A resp \in Responses(1..Len(Docs)) :
                   LET served(again) == again.value = last.value /\ again.fetches = 0
                   IN  served(get_metal_prices(cache, now, last.metal, last.city,
                                               FALSE, resp))

C6_Witness ==
    /\ Called /\ last.fetches > 0 /\ Returned("prices")
    /\ last.metal = Gold_ /\ last.city = MUMBAI_
    /\ last.pre # None /\ last.pre[1].data # last.value[1]
    /\ now = last.at
    /\ cache[<<gold, mumbai>>].data = last.value[1]

\* C7: an unsupported metal or city makes the call fail with the validation
\* error naming the identifier (lower-cased, the metal first), before any
\* cache read, network fetch or cache write
C7_ValidationFirst ==
    (Called /\ ~Supported) =>
        /\ last.raised
        /\ last.error = Some(IF LastMetal \notin DOMAIN METALS
                             THEN [what |-> "metal", ident |-> LastMetal]
                             ELSE [what |-> "city", ident |-> LastCity])
        /\ last.reads = 0 /\ last.fetches = 0 /\ last.writes = 0
        /\ ~last.changed

C7_Witness ==
    /\ Called /\ last.metal = Gold_ /\ last.city = atlantis /\ ~last.force
    /\ last.raised
    /\ last.error = Some([what |-> "city", ident |-> atlantis])
    /\ cache # <<>>

\* the reason each page of Docs without a usable table is refused for
ExpectedReason(d) ==
    CASE d = 3 -> "no_section"
      [] d = 4 -> "no_table"
      [] d = 5 -> "malformed_table"
      [] d = 6 -> "no_headers"
      [] d = 7 -> "no_data_rows"
      [] OTHER -> "none"

C9_NoRetry ==
    Called =>
        /\ last.fetches <= 1
        /\ last.fetches = 1 => (Supported /\ (last.force \/ ~PreValid))

C9_Witness ==
    /\ Called /\ last.fetches = 1 /\ ~last.force
    /\ last.pre # None /\ ~PreValid
    /\ last.resp.exc

(***************************************************************************)
(* Properties of job_check_alerts, stated on the record of the running job *)
(***************************************************************************)
Running == job.pc # "idle"

PairOf(alert) == <<alert.metal, alert.city>>

\* the index of the group the i-th alert read by the job belongs to
GroupOf(i) == CHOOSE g \in 1..Len(job.groups) : job.groups[g] = PairOf(job.alerts[i])

\* the place of the i-th alert in its group
PlaceOf(i) ==
    Cardinality({j \in 1..i : PairOf(job.alerts[j]) = PairOf(job.alerts[i])})

\* the job has gone past the i-th alert: its group is finished, or the job
\* stands at a later alert of the group
Decided(i) ==
    \/ GroupOf(i) < job.gi
    \/ GroupOf(i) = job.gi /\ job.pc = "send" /\ PlaceOf(i) < job.ai

\* the price resolved for the group of the i-th alert
ResolvedPrice(i) == job.log[GroupOf(i)].price

\* C4: an alert the job has gone past was fired if and only if the price
\* resolved for its group is present, above 0 and below its threshold; at a
\* price equal to or above the threshold it was not, and for a price absent,
\* zero or negative no alert of the group was; nothing else was fired
C4_FiresIffBelowThreshold ==
    Running =>
        /\ \A i \in 1..Len(job.alerts) :
               Decided(i) =>
                   /\ job.alerts[i].chat_id \in job.fired <=>
                          /\ ResolvedPrice(i) # None
                          /\ ResolvedPrice(i)[1] > 0
                          /\ ResolvedPrice(i)[1] < job.alerts[i].threshold
                   /\ (ResolvedPrice(i) # None
                          /\ ResolvedPrice(i)[1] >= job.alerts[i].threshold)
                          => job.alerts[i].chat_id \notin job.fired
                   /\ (ResolvedPrice(i) = None \/ ResolvedPrice(i)[1] <= 0) =>
                          \A j \in 1..Len(job.alerts) :
                              GroupOf(j) = GroupOf(i) => job.alerts[j].chat_id \notin job.fired
        /\ \A chat_id \in job.fired :
               \E i \in 1..Len(job.alerts) : Decided(i) /\ job.alerts[i].chat_id = chat_id

\* one group at the price 6000: the alert at 7500 fired, the one at 6000 did not
C4_Witness ==
    /\ job.pc = "done"
    /\ Len(job.alerts) = 2 /\ Len(job.groups) = 1
    /\ job.log[1].price = Some(600000)
    /\ job.alerts[1].threshold = 600000 /\ job.alerts[2].threshold = 750000
    /\ job.fired = {2}

\* a group skipped for the price 0 although a threshold is above it
C4_SkipReached ==
    /\ job.pc = "done"
    /\ job.log[1].price = Some(0)
    /\ job.alerts[1].threshold > 0
    /\ job.fired = {}

\* C10: in one run get_metal_prices is called at most once for each pair that
\* occurs among the alerts, for no other pair, and not for a pair whose cache
\* entry was within TTL when its group was processed
C10_OneFetchPerPair ==
    Running =>
        /\ \A g \in 1..Len(job.log) :
               /\ job.log[g].called <= 1
               /\ job.log[g].valid => job.log[g].called = 0
               /\ \E i \in 1..Len(job.alerts) : PairOf(job.alerts[i]) = job.log[g].key
        /\ \A i \in 1..Len(job.alerts) :
               Cardinality({g \in 1..Len(job.log) :
                               /\ job.log[g].key = PairOf(job.alerts[i])
                               /\ job.log[g].called > 0}) <= 1

\* two alerts share a pair and the run called get_metal_prices once
C10_Witness ==
    /\ job.pc = "done"
    /\ Len(job.alerts) = 2
    /\ PairOf(job.alerts[1]) = PairOf(job.alerts[2])
    /\ Len(job.log) = 1 /\ job.log[1].called = 1 /\ ~job.log[1].valid

\* a group whose entry was within TTL was processed without a call
C10_ValidReached ==
    /\ job.pc = "done"
    /\ job.log[1].valid /\ job.log[1].called = 0
    /\ job.fired # {}

\* the i-th alert qualifies at the price resolved for its group
Qualifies(i) ==
    /\ ResolvedPrice(i) # None
    /\ ResolvedPrice(i)[1] > 0
    /\ ResolvedPrice(i)[1] < job.alerts[i].threshold

\* the fetch made for group g left no entry to read the price from
FetchFailed(g) == job.log[g].called = 1 /\ job.log[g].price = None

\* C11: a run goes through every group once, in order, whatever happened to
\* the groups before: a group whose fetch failed has one log entry (no retry)
\* and none of its alerts fired, every alert that qualifies in any other group
\* was fired, and an alert whose delivery failed did not stop the later ones
C11_FailureSkipsOnlyItsGroup ==
    /\ job.pc = "group" => Len(job.log) = job.gi - 1
    /\ job.pc = "send" => Len(job.log) = job.gi
    /\ job.pc = "done" =>
        /\ Len(job.log) = Len(job.groups)
        /\ \A g \in 1..Len(job.groups) :
               /\ job.log[g].key = job.groups[g]
               /\ job.log[g].called <= 1
        /\ \A i \in 1..Len(job.alerts) :
               /\ Decided(i)
               /\ Qualifies(i) => job.alerts[i].chat_id \in job.fired
               /\ FetchFailed(GroupOf(i)) => job.alerts[i].chat_id \notin job.fired
        /\ job.failed \subseteq job.fired

\* the fetch for the first group (silver) failed, the alert of the second
\* group (gold at 6000, threshold 7500) fired
C11_Witness ==
    /\ job.pc = "done"
    /\ Len(job.groups) = 2
    /\ job.groups[1] = <<silver, bangalore>>
    /\ FetchFailed(1)
    /\ job.log[2].called = 1 /\ job.log[2].price = Some(600000)
    /\ job.fired = {2}

\* the delivery to the first alert of a group failed and the second was sent
C11_DeliveryReached ==
    /\ job.pc = "done"
    /\ Len(job.groups) = 1
    /\ job.failed = {1}
    /\ job.fired = {1, 2}

(***************************************************************************)
(* Properties of the database layer, stated on the record of the latest    *)
(* operation                                                               *)
(***************************************************************************)
\* the table the latest operation worked on, before and after it
TableBefore == IF ret.table = "subscriptions" THEN ret.subs ELSE ret.alerts
TableAfter  == IF ret.table = "subscriptions" THEN subs ELSE alerts

\* what get and list_all give on the tables as they are now
GetNow(chat_id) ==
    IF ret.table = "subscriptions" THEN get_subscription(subs, chat_id)
    ELSE get_alert(alerts, chat_id)

ListNow ==
    IF ret.table = "subscriptions" THEN get_all_subscriptions(subs)
    ELSE get_all_alerts(alerts)

\* rows holds each record of tbl once and nothing else
ExactlyTheRecords(rows, tbl) ==
    /\ Len(rows) = Cardinality(DOMAIN tbl)
    /\ \A k \in DOMAIN tbl : \E i \in 1..Len(rows) : rows[i] = tbl[k]
    /\ \A i, j \in 1..Len(rows) : rows[i].chat_id = rows[j].chat_id => i = j

\* C20: each table is a map keyed by chat_id: after put, get gives the fields
\* put and the rows of the other chats are as before; delete returns true iff
\* the chat had a row, and get then gives nothing; get and list_all change
\* nothing and list_all gives exactly the current rows, one per chat_id; an
\* operation on one table leaves the other table as it was
C20_StoresAreMaps ==
    ret.op # "none" =>
        /\ ret.table = "subscriptions" => alerts = ret.alerts
        /\ ret.table = "alerts" => subs = ret.subs
        /\ ExactlyTheRecords(get_all_subscriptions(subs), subs)
        /\ ExactlyTheRecords(get_all_alerts(alerts), alerts)
        /\ \A k \in DOMAIN TableAfter : TableAfter[k].chat_id = k
        /\ ret.op = "put" =>
               /\ GetNow(ret.chat_id) = ret.row
               /\ DOMAIN TableAfter = DOMAIN TableBefore \cup {ret.chat_id}
               /\ \A k \in DOMAIN TableBefore \ {ret.chat_id} :
                      GetNow(k) = Some(TableBefore[k])
        /\ ret.op = "delete" =>
               /\ ret.bool <=> ret.chat_id \in DOMAIN TableBefore
               /\ GetNow(ret.chat_id) = None
               /\ DOMAIN TableAfter = DOMAIN TableBefore \ {ret.chat_id}
               /\ \A k \in DOMAIN TableAfter : GetNow(k) = Some(TableBefore[k])
        /\ ret.op = "get" =>
               /\ TableAfter = TableBefore
               /\ ret.row = (IF ret.chat_id \in DOMAIN TableBefore
                             THEN Some(TableBefore[ret.chat_id]) ELSE None)
        /\ ret.op = "list" =>
               /\ TableAfter = TableBefore
               /\ ret.rows = ListNow
               /\ ExactlyTheRecords(ret.rows, TableBefore)

\* the subscription of a chat was deleted and its alert is still there
C20_Witness ==
    /\ ret.op = "delete" /\ ret.table = "subscriptions" /\ ret.bool
    /\ ret.chat_id \in DOMAIN ret.alerts
    /\ get_subscription(subs, ret.chat_id) = None
    /\ get_alert(alerts, ret.chat_id) # None
    /\ Cardinality(DOMAIN subs) = 1

\* a put over the row of the chat, with other fields
C20_UpsertReached ==
    /\ ret.op = "put" /\ ret.table = "subscriptions"
    /\ ret.chat_id \in DOMAIN ret.subs
    /\ Some(ret.subs[ret.chat_id]) # ret.row
    /\ Cardinality(DOMAIN subs) = 2

\* a delete for a chat without a row returned false
C20_DeleteAbsentReached ==
    /\ ret.op = "delete" /\ ret.table = "alerts" /\ ~ret.bool
    /\ alerts # <<>>

(***************************************************************************)
(* Properties of the cache under the requests and jobs of ConcSpec         *)
(***************************************************************************)
\* entry e under key k is what one successful fetch at the time e.timestamp
\* of one page wrote: the message rendered from that page at that time and
\* the price of that page
WrittenByOneFetch(k, e) ==
    \E d \in 1..Len(Docs) :
        LET written(p) ==
                /\ p.kind = "prices"
                /\ e.data = Message("prices", k[1], k[2], 0, None, p.table, e.timestamp)
                /\ e.price = OrZero(p.price)
        IN  written(Parsed[k[1], d])

\* C12: in every state reached under interleaved requests, alert checks and
\* daily runs each cache entry is a whole (message, timestamp, price) triple,
\* under a supported lower-case key, and all three come from one successful
\* fetch, made no later than now
C12_EntriesAreWhole ==
    \A k \in DOMAIN cache :
        /\ k[1] \in DOMAIN METALS /\ k[2] \in DOMAIN CITIES
        /\ DOMAIN cache[k] = {"data", "timestamp", "price"}
        /\ cache[k].timestamp <= now
        /\ WrittenByOneFetch(k, cache[k])

\* while the alert check and the daily run both await a send, a forced
\* request has replaced the gold entry by one of another page and price
C12_Witness ==
    /\ job.pc = "send" /\ daily.pc = "send"
    /\ last.op = "get" /\ last.force /\ last.writes = 1
    /\ last.pre # None
    /\ last.pre[1].price = 600000
    /\ cache[<<gold, bangalore>>].price = 0
    /\ <<silver, bangalore>> \in DOMAIN cache

(***************************************************************************)
(* Properties of the price cache, stated on the record of the latest set   *)
(***************************************************************************)
WasSet == last.op = "set"

SetKey == <<Lower(last.metal), Lower(last.city)>>

\* C13: after a set the lower-cased key holds the message, the price and the
\* time of the set whatever it held before, every other key holds what it
\* held, and a read with identifiers in any letter case gives that entry
\* while now - time of the set < TTL (and nothing from then on)
C13_SetReplacesAndStamps ==
    WasSet =>
        /\ DOMAIN cache = DOMAIN last.before \cup {SetKey}
        /\ \A k \in DOMAIN last.before \ {SetKey} : cache[k] = last.before[k]
        /\ cache[SetKey] = [data |-> last.message, timestamp |-> last.at,
                            price |-> last.price]
        /\ \A m, c \in CacheSpellings :
               (Lower(m) = SetKey[1] /\ Lower(c) = SetKey[2]) =>
                   _get_cached(cache, now, m, c) =
                       (IF now - last.at < CACHE_TTL THEN Some(cache[SetKey]) ELSE None)

\* a set for Gold/MUMBAI over the entry of gold/mumbai, with another message
\* and price, beside the entry of silver, read one tick later
C13_Witness ==
    /\ WasSet /\ last.metal = Gold_ /\ last.city = MUMBAI_
    /\ SetKey \in DOMAIN last.before
    /\ last.before[SetKey].data # last.message
    /\ last.before[SetKey].price # last.price
    /\ <<silver, mumbai>> \in DOMAIN last.before
    /\ now = last.at + 1
    /\ _get_cached(cache, now, GOLD_, Mumbai_) # None


\* the entry the latest call found under its key was past the TTL
PreExpired == Called /\ last.pre # None /\ last.at - last.pre[1].timestamp >= CACHE_TTL

\* C14: in every step each key that has an entry keeps one; an entry past
\* the TTL is read as absent; and an entry changes only in a call for its
\* key that fetched the page and stored the prices
C14_NeverRemoved ==
    [][ /\ DOMAIN cache \subseteq DOMAIN cache'
        /\ \A k \in DOMAIN cache :
              /\ (now - cache[k].timestamp >= CACHE_TTL) =>
                     _get_cached(cache, now, k[1], k[2]) = None
              /\ (cache'[k] # cache[k]) =>
                     /\ last'.op = "get" /\ last'.writes = 1
                     /\ <<Lower(last'.metal), Lower(last'.city)>> = k
                     /\ last'.value[1].kind = "prices"
                     /\ cache'[k].data = last'.value[1] ]_vars

\* an unforced call found an expired entry, went to the network, failed, and
\* the expired entry is still stored as it was
C14_Witness ==
    /\ PreExpired /\ ~last.force /\ last.fetches = 1 /\ Failed
    /\ LastKey \in DOMAIN cache /\ cache[LastKey] = last.pre[1]

\* an expired entry was overwritten by a successful fetch
C14_OverwriteReached ==
    /\ PreExpired /\ Returned("prices")
    /\ cache[LastKey].timestamp = last.at /\ cache[LastKey] # last.pre[1]

(***************************************************************************)
(* Properties of the extraction, stated on the page and the result of the  *)
(* latest extraction                                                       *)
(***************************************************************************)
Extracted == last.op = "extracted"

\* the sections of the page whose title holds the keyword of the metal
Matching ==
    {i \in 1..Len(last.doc.sections) :
        /\ last.doc.sections[i].title # None
        /\ Contains(Lower(last.doc.sections[i].title[1]),
                    Lower(METALS[last.metal].section_keyword))}

FirstOf(S) == CHOOSE i \in S : \A j \in S : i <= j

\* the tables of the first matching section that carry the marker class
Marked ==
    LET tables == last.doc.sections[FirstOf(Matching)].tables
    IN  {i \in 1..Len(tables) : MARKER_CLASS \in tables[i].class}

SourceTable == last.doc.sections[FirstOf(Matching)].tables[FirstOf(Marked)]

\* the positions of the rows of table t with as many cells as t has headers
KeptPositions(t) == {i \in 1..Len(t.tbody[1]) : Len(t.tbody[1][i]) = Len(t.thead[1])}

\* the j-th of the positions P, in document order
Position(P, j) == CHOOSE i \in P : Cardinality({k \in P : k <= i}) = j

\* C15: the rows extracted are the source rows whose cell count is the header
\* count, all of them and no other, in document order, each with all its
\* cells and nothing added
C15_RowsMatchHeaders ==
    (Extracted /\ last.result.error = None) =>
        LET matches(trs, headers, rows, kept) ==
                /\ Len(headers) = Len(SourceTable.thead[1])
                /\ \A r \in 1..Len(rows) : Len(rows[r]) = Len(headers)
                /\ Len(rows) = Cardinality(kept)
                /\ \A j \in 1..Len(rows) :
                       LET same(tr) == rows[j] = [i \in 1..Len(tr) |-> Strip(tr[i])]
                       IN  same(trs[Position(kept, j)])
        IN  matches(SourceTable.tbody[1], last.result.headers, last.result.rows,
                    KeptPositions(SourceTable))

\* one row kept, its cells stripped; a shorter and a longer row dropped
C15_Witness ==
    /\ Extracted /\ last.result.error = None
    /\ Len(last.result.headers) = 2
    /\ SourceTable.tbody[1] = << <<g1, p6010>>, <<adCell>>, <<g8, pNA, chUp>> >>
    /\ last.result.rows = << <<g1, Strip(p6010)>> >>

\* two different rows kept around a dropped one, in the order of the page
C15_OrderReached ==
    /\ Extracted /\ last.result.error = None
    /\ SourceTable.tbody[1] = << <<g8, p7000>>, <<adCell>>, <<g1, p6010>> >>
    /\ last.result.rows = << <<g8, p7000>>, <<g1, Strip(p6010)>> >>

\* the structure error the page must end in, "none" when it has a table
ExpectedError ==
    IF Matching = {} THEN "no_section"
    ELSE IF Marked = {} THEN "no_table"
    ELSE IF SourceTable.thead = None \/ SourceTable.tbody = None THEN "malformed_table"
    ELSE IF Len(SourceTable.thead[1]) = 0 THEN "no_headers"
    ELSE IF KeptPositions(SourceTable) = {} THEN "no_data_rows"
    ELSE "none"

\* the reason of a structure error, for either metal
ReasonOf(what) ==
    {StructureError(what, label).error[1] :
        label \in {<<>>} \cup {METALS[m].label : m \in DOMAIN METALS}}

\* C16: the extraction fails exactly in the five cases, an earlier case
\* winning over a later one, and the reasons for a missing section, a missing
\* table and no data rows are different from one another
C16_StructureErrorsInOrder ==
    Extracted =>
        LET reported(expected, error) ==
                /\ (expected = "none") = (error = None)
                /\ (expected # "none") =>
                       /\ error[1].what = expected
                       /\ error[1] \in ReasonOf(expected)
                       /\ \A other \in {"no_section", "no_table", "no_data_rows"}
                                         \ {expected} :
                              error[1] \notin ReasonOf(other)
        IN  reported(ExpectedError, last.result.error)

\* a table whose head has no cell and whose body has no row: the headers are
\* reported, not the rows
C16_Witness ==
    /\ Extracted /\ Matching # {} /\ Marked # {}
    /\ SourceTable.thead = Some(<<>>) /\ SourceTable.tbody = Some(<<>>)
    /\ last.result.error # None /\ last.result.error[1].what = "no_headers"

(***************************************************************************)
(* The price that goes into the cache                                      *)
(***************************************************************************)
\* the latest call fetched a page (status 200) the parser accepts
FetchedPage ==
    /\ Supported /\ last.fetches = 1
    /\ ~last.resp.exc /\ last.resp.status_code = 200 /\ ~Docs[last.resp.doc].rejected

\* the price read off the first of the rows: its second cell through the
\* parser, 0 when there is no second cell or the parser gives nothing
FirstRowPrice(rows) ==
    IF Len(rows[1]) < 2 THEN 0
    ELSE LET number(p) == IF p = None THEN 0 ELSE p[1]
         IN  number(_parse_price_from_cell(rows[1][2]))

\* C17: a fetch whose page has a table succeeds whatever the price cell holds:
\* the message with the rendered table is returned and cached, and the cached
\* price is the parser's result on the second cell of the first kept row, or
\* 0 when the parser gives nothing or the row has one cell
C17_PriceOfFirstRow ==
    FetchedPage =>
        LET stored(ex) ==
                (ex.error = None) =>
                    /\ Returned("prices") /\ last.writes = 1
                    /\ last.value[1].table = _build_table_str(ex.headers, ex.rows)
                    /\ cache[LastKey].data = last.value[1]
                    /\ cache[LastKey].price = FirstRowPrice(ex.rows)
        IN  stored(ExtractTable(Docs[last.resp.doc], METALS[LastMetal]))

\* gold of page 2: the price cell reads N/A, the table is cached with price 0
C17_Witness ==
    /\ FetchedPage /\ last.resp.doc = 2 /\ LastMetal = gold
    /\ Returned("prices") /\ last.value[1].table # <<>>
    /\ cache[LastKey].data = last.value[1] /\ cache[LastKey].price = 0

\* gold of page 9: a single column
C17_SingleColumnReached ==
    /\ FetchedPage /\ last.resp.doc = 9 /\ LastMetal = gold
    /\ Returned("prices") /\ cache[LastKey].price = 0

\* silver of page 1: 7000.50 INR
C17_ParsedReached ==
    /\ FetchedPage /\ last.resp.doc = 1 /\ LastMetal = silver
    /\ Returned("prices") /\ cache[LastKey].price = 700050

(***************************************************************************)
(* Properties of _build_table_str, stated on the latest rendering          *)
(***************************************************************************)
Rendered == last.op = "rendered" /\ ~last.raised

\* the text holds a glyph two columns wide
HasWide(s) == \E i \in 1..Len(s) : IsWide(CodePoint[s[i]])

\* C18: the header line, the separator and every data line of a rendered
\* table have one and the same display width, and that width is the one of the
\* columns measured on the cells with their glyphs: for each column the widest
\* of the header and the cells as shown, plus three per column boundary
C18_LinesSameWidth ==
    Rendered =>
        LET n == Len(last.headers)
            widest(i) ==
                CHOOSE w \in {_display_len(last.headers[i])}
                                \cup {_display_len(last.shown[r][i]) : r \in 1..Len(last.shown)} :
                    /\ w >= _display_len(last.headers[i])
                    /\ \A r \in 1..Len(last.shown) : w >= _display_len(last.shown[r][i])
            RECURSIVE total(_)
            total(i) == IF i = 0 THEN 0 ELSE widest(i) + total(i - 1)
            same(width) ==
                /\ Len(last.lines) = Len(last.rows) + 2
                /\ \A l \in 1..Len(last.lines) : _display_len(last.lines[l]) = width
        IN  same(IF n = 0 THEN 0 ELSE total(n) + 3 * (n - 1))

\* a table of four columns whose change cells outgrow their header once the
\* glyph is in, with a header and a cell that hold glyphs two columns wide
C18_Witness ==
    /\ Rendered
    /\ last.headers = <<hGram, hToday, hYday, hMedal>>
    /\ last.rows = << <<g8, p7000, adCell, chDownU>>, <<g8, p6000, p6000, ch10gram>> >>
    /\ HasWide(last.lines[1]) /\ HasWide(last.lines[3])
    /\ _display_len(last.lines[4]) = _display_len(last.lines[2])
    /\ _display_len(last.lines[4]) > Len(last.lines[4])

\* C19: a row of four cells or more has in its cell of index 3 the old text
\* behind the down glyph and a space when the text starts with the hyphen or
\* the minus sign, behind the up glyph and a space otherwise, and its other
\* cells as they were; a row of fewer cells is left as it was; and a table
\* whose rows all have as many cells as there are headers is rendered
\* without an error, whether that is fewer than four or not
C19_GlyphByLeadingMinus ==
    last.op = "rendered" =>
        /\ Len(last.shown) = Len(last.rows)
        /\ \A r \in 1..Len(last.rows) :
               LET marked(old, new) ==
                       IF Len(old) < 4 THEN new = old
                       ELSE /\ Len(new) = Len(old)
                            /\ \A i \in 1..Len(old) : i # 4 => new[i] = old[i]
                            /\ new[4] =
                                  (IF old[4] # <<>> /\ old[4][1] \in {"-", "MINUS"}
                                   THEN <<"RED", " ">> ELSE <<"GREEN", " ">>) \o old[4]
               IN  marked(last.rows[r], last.shown[r])
        /\ (last.rows # <<>> /\ \A r \in 1..Len(last.rows) :
                                    Len(last.rows[r]) = Len(last.headers))
               => /\ ~last.raised
                  /\ \A r \in 1..Len(last.rows) :
                         LET glyphs(line) == {line[i] : i \in 1..Len(line)} \cap {"RED", "GREEN"}
                             fall(change) == change # <<>> /\ change[1] \in {"-", "MINUS"}
                         IN  glyphs(last.lines[r + 2]) =
                                 (IF Len(last.rows[r]) < 4 THEN {}
                                  ELSE IF fall(last.rows[r][4]) THEN {"RED"} ELSE {"GREEN"})

\* a row whose change has its hyphen in the middle beside one that starts with
\* the minus sign
C19_Witness ==
    /\ Rendered /\ last.headers = Headers4
    /\ last.rows = << <<g8, p6000, p6000, ch10gram>>, <<g8, p7000, adCell, chDownU>> >>
    /\ last.shown[1][4] = <<"GREEN", " ">> \o ch10gram
    /\ last.shown[2][4] = <<"RED", " ">> \o chDownU

\* a table of two columns: no glyph, no error
C19_ShortRowsReached ==
    /\ Rendered /\ last.headers = <<hGram, hToday>>
    /\ last.rows = << <<g1, p6000>> >> /\ last.shown = last.rows
    /\ Len(last.lines) = 3

(***************************************************************************)
(* Properties of job_daily_prices, stated on the log of the run            *)
(***************************************************************************)
DailyRunning == daily.pc # "idle"

\* the identifiers of row i of the run are supported
RowSupported(i) ==
    daily.subs[i].metal \in DOMAIN METALS /\ daily.subs[i].city \in DOMAIN CITIES

\* C21: a run goes through the rows it read one after the other whatever
\* happens in a turn: the turns ended are those of the rows before the current
\* one, in order; a row with an unsupported metal or city ends in a caught
\* exception of the fetch, any other row goes on to the delivery, which is
\* made or fails; and the run ends only when every row had its turn
C21_DailyGoesOn ==
    DailyRunning =>
        /\ Len(daily.log) = daily.i - 1
        /\ daily.i <= Len(daily.subs) + 1
        /\ \A i \in 1..Len(daily.log) :
               /\ daily.log[i].chat_id = daily.subs[i].chat_id
               /\ IF RowSupported(i) THEN daily.log[i].outcome \in {"sent", "send_raised"}
                  ELSE daily.log[i].outcome = "fetch_raised"
        /\ (daily.pc = "done") = (Len(daily.log) = Len(daily.subs))

\* the first row has a metal the bot does not know, the delivery to the
\* second chat was made all the same, and the run is at its end
C21_Witness ==
    /\ daily.pc = "done" /\ Len(daily.subs) = 2
    /\ daily.subs[1].metal = platinum
    /\ daily.log[1].outcome = "fetch_raised"
    /\ daily.log[2].outcome = "sent"

\* a delivery failed and the next row was delivered
C21_DeliveryFailureReached ==
    /\ daily.pc = "done" /\ Len(daily.subs) = 2
    /\ daily.log[1].outcome = "send_raised"
    /\ daily.log[2].outcome = "sent"

(***************************************************************************)
(* Properties of _parse_price_from_cell, stated on the latest cell parsed   *)
(***************************************************************************)
CellParsed == last.op = "parsed"

\* C22: the parser gives the value of the number as written once the rupee
\* sign and the commas are out, whatever white space stands around it and
\* whatever follows it after white space; it gives None, and raises nothing,
\* when no number stands there or something is written against the number
C22_FirstTokenValue ==
    CellParsed =>
        last.result =
            (IF last.suffix = <<"/", "g">> THEN None ELSE last.body[2])

\* a word behind the number; below, the other cells the claim names
C22_Witness ==
    /\ CellParsed
    /\ last.text = <<"6", "0", "0", "0", " ", "I", "N", "R">>
    /\ last.result = Some(600000)

C22_RupeeReached ==
    /\ CellParsed /\ last.text = <<"RUPEE", "6", ",", "1", "2", "3">>
    /\ last.result = Some(612300)

C22_LakhReached ==
    /\ CellParsed /\ last.text = <<"1", ",", "0", "0", ",", "0", "0", "0">>
    /\ last.result = Some(10000000)

C22_EmptyReached == CellParsed /\ last.text = <<>> /\ last.result = None

C22_BlankReached == CellParsed /\ last.text = <<" ">> /\ last.result = None

(***************************************************************************)
(* job_check_alerts from one run to the next                               *)
(***************************************************************************)
\* the price the run resolved for the pair of this alert
PriceFor(alert) ==
    LET g == CHOOSE g \in 1..Len(job.groups) : job.groups[g] = <<alert.metal, alert.city>>
    IN  job.log[g].price

\* C23: a run leaves the alerts table as it is - what the run read at its
\* start is what the table holds all along the run - and at its end every
\* alert the run before fired for, and that is still in the table, was fired
\* for again if the price resolved for its pair is above 0 and below its
\* threshold as it stands now
C23_FiresEveryCycle ==
    Running =>
        /\ job.alerts = get_all_alerts(alerts)
        /\ (job.pc = "done") =>
               \A chat_id \in job.prev \cap DOMAIN alerts :
                   LET again(price) ==
                           (price # None /\ price[1] > 0
                                /\ price[1] < alerts[chat_id].threshold)
                               => chat_id \in job.fired
                   IN  again(PriceFor(alerts[chat_id]))

\* the run before fired for both chats; this run fired for chat 2 again, and
\* not for chat 1, whose threshold the user has lowered to the price
C23_Witness ==
    /\ job.pc = "done"
    /\ job.prev = {1, 2}
    /\ DOMAIN alerts = {1, 2}
    /\ job.log[1].price = Some(600000)
    /\ alerts[1].threshold = 600000 /\ alerts[2].threshold = 750000
    /\ job.fired = {2}

(***************************************************************************)
(* The keys of the cache                                                   *)
(***************************************************************************)
\* C24: every key of the cache is a pair of a supported metal and a supported
\* city in lower case, so the cache never holds more entries than there are
\* such pairs
C24_KeysAreSupportedPairs ==
    /\ \A k \in DOMAIN cache :
           /\ k[1] \in DOMAIN METALS /\ k[2] \in DOMAIN CITIES
           /\ k = <<Lower(k[1]), Lower(k[2])>>
    /\ Cardinality(DOMAIN cache)
           <= Cardinality(DOMAIN METALS) * Cardinality(DOMAIN CITIES)

\* the cache holds the entries of two pairs, written for a request spelt
\* 'Gold' and for a job, and the latest request was refused for its metal
C24_Witness ==
    /\ DOMAIN cache = {<<gold, bangalore>>, <<silver, bangalore>>}
    /\ Called /\ last.raised /\ last.metal = platinum

(***************************************************************************)
(* The status of the response                                              *)
(***************************************************************************)
\* the latest call got a response from the network
Answered == Called /\ last.fetches = 1 /\ ~last.resp.exc

\* C25: a response with any status but 200 - 204 as much as 404 - ends the
\* call with the fallback that names the status: the page it carries is not
\* parsed and the cache is left as it was; the outcomes of parsing (prices, a
\* parse failure) occur for the status 200 only
C25_OnlyStatus200Parsed ==
    Answered =>
        /\ (last.resp.status_code # 200) =>
               /\ Returned("http_error")
               /\ last.value[1].status = last.resp.status_code
               /\ last.value[1].table = <<>> /\ last.value[1].reason = None
               /\ last.writes = 0 /\ ~last.changed
               /\ (last.pre = None) = (LastKey \notin DOMAIN cache)
               /\ last.pre # None => cache[LastKey] = last.pre[1]
        /\ (last.resp.status_code = 200) =>
               (\/ Returned("prices") \/ Returned("parse_error")
                \/ Returned("unexpected_error"))

\* status 204 with a page that holds the table: the fallback for 204, and no
\* entry for the pair in the cache
C25_Witness ==
    /\ Answered /\ last.resp.status_code = 204
    /\ Parsed[LastMetal, last.resp.doc].kind = "prices"
    /\ Returned("http_error") /\ last.value[1].status = 204
    /\ LastKey \notin DOMAIN cache

(***************************************************************************)
(* What the commands leave in the two tables                               *)
(***************************************************************************)
StoresValid ==
    /\ \A chat_id \in DOMAIN subs :
           /\ subs[chat_id].metal \in DOMAIN METALS
           /\ subs[chat_id].city \in DOMAIN CITIES
    /\ \A chat_id \in DOMAIN alerts :
           /\ alerts[chat_id].metal \in DOMAIN METALS
           /\ alerts[chat_id].city \in DOMAIN CITIES
           /\ alerts[chat_id].threshold > 0

\* /alert without a price or with a price that is refused
BadPrice(args) == args = <<>> \/ args[1] \in CommandBadPrices

\* C26: whatever the arguments of the /subscribe and /alert commands so far,
\* every row of the subscriptions table and of the alerts table has a
\* supported metal and a supported city, every threshold stored is above 0,
\* and an /alert without a price, with a word for a price, or with a price of
\* zero or less leaves the alerts table as it was
C26_StoredRowsSupported ==
    /\ []StoresValid
    /\ [][\A chat_id \in ChatIds, args \in CommandAlertArgs :
              (BadPrice(args) /\ CmdAlert(chat_id, args)) => alerts' = alerts]_vars

\* rows stored for arguments the bot does not know or that name a city first:
\* /subscribe platinum delhi, /subscribe mumbai, /alert 7500 platinum
\* atlantis, /alert 6,000 MUMBAI Silver
C26_Witness ==
    /\ DOMAIN subs = {1, 2} /\ DOMAIN alerts = {1, 2}
    /\ subs[1].metal = gold /\ subs[1].city = delhi
    /\ subs[2].metal = gold /\ subs[2].city = mumbai
    /\ alerts[1].metal = gold /\ alerts[1].city = bangalore /\ alerts[1].threshold = 750000
    /\ alerts[2].metal = silver /\ alerts[2].city = mumbai /\ alerts[2].threshold = 600000

====
